---- MODULE Spec2Model ----
(***************************************************************************)
(* Model of the TES3 mesh mirroring scripts                                *)
(*   src/03 - TES3_automatic_mirroring/_TES3_automirror_NIF.py      (NIF)  *)
(*   src/03 - TES3_automatic_mirroring_X/_TES3_automirror_NIF_X.py  (NIF_X)*)
(*   src/03 - TES3_automatic_mirroring_X/_TES3_automirror_UVW_X_Y.py (UVW) *)
(*                                                                         *)
(* A parsed JSON value is a tagged record:                                 *)
(*   [t |-> "str",  toks, sp]   a string: its whitespace separated tokens, *)
(*                              sp = the text is exactly the tokens joined *)
(*                              by single spaces                           *)
(*   [t |-> "int",  i]          a JSON integer                             *)
(*   [t |-> "null"]             JSON null                                  *)
(*   [t |-> "list", l]          a JSON array                               *)
(*   [t |-> "dict", d]          a JSON object: the sequence of its         *)
(*                              [k, v] entries in key order                *)
(* A token is [num, k, nz, canon]: num = float() accepts it, k = its value *)
(* in units of 1/One, nz = it is a negative zero, canon = its text is    *)
(* what Python prints for that float ("1.0", not "1" or "1.00").           *)
(***************************************************************************)
EXTENDS Integers, Sequences, FiniteSets, TLC

VARIABLES source, prev, doc, log, exc, calls, argument

\* one run of main() of a script over a directory
VARIABLES script, fs, phase, files_to_process, pos, success_count, attempts,
          batchlog, written, earlier, counters, entries, errors

tvars == <<source, prev, doc, log, exc, calls, argument>>
bvars == <<script, fs, phase, files_to_process, pos, success_count, attempts,
           batchlog, written, earlier, counters, entries, errors>>
vars == <<tvars, bvars>>

(***************************************************************************)
(* Bounds                                                                  *)
(***************************************************************************)
MaxCalls == 2      \* transforms applied one after the other to a document
MaxList == 2       \* longest list of coordinate / triangle / UV strings
MaxTri == 2        \* most triangles of a flat integer triangle list
MaxFiles == 2      \* most entries of the directory a script runs in
MaxRuns == 2       \* times a script is run in the same directory
Precision == 3     \* bits of the mantissa of a float (53 in Python)

One == 4           \* the float 1.0 of "1.0 - u": a float value k stands for k / One

(***************************************************************************)
(* JSON values                                                             *)
(***************************************************************************)
JStr(toks, sp) == [t |-> "str", toks |-> toks, sp |-> sp]
JInt(i) == [t |-> "int", i |-> i]
JNull == [t |-> "null"]
JList(l) == [t |-> "list", l |-> l]
JDict(d) == [t |-> "dict", d |-> d]
Entry(k, v) == [k |-> k, v |-> v]

\* key in mapping
Has(d, f) == \E i \in 1..Len(d) : d[i].k = f
\* mapping[key]
Get(d, f) == d[CHOOSE i \in 1..Len(d) : d[i].k = f].v
\* mapping[key] = value, for a key the mapping has: the entry keeps its place
Put(d, f, v) == [i \in 1..Len(d) |-> IF d[i].k = f THEN Entry(f, v) ELSE d[i]]

Min(S) == CHOOSE m \in S : \A n \in S : m <= n

RECURSIVE Flatten(_)
Flatten(ss) == IF ss = <<>> THEN <<>> ELSE Head(ss) \o Flatten(Tail(ss))

(***************************************************************************)
(* Floats and their text                                                   *)
(***************************************************************************)
\* float(token), for a token float() accepts
float(tok) == [k |-> tok.k, nz |-> tok.nz]
\* a variant that gives the negative number of the same magnitude
Negate_abs(x) == IF x.k = 0 THEN [k |-> 0, nz |-> TRUE]
                 ELSE [k |-> IF x.k > 0 THEN -x.k ELSE x.k, nz |-> FALSE]

\* -x : the sign of a zero flips too
Negate(x) == IF x.k = 0 THEN [k |-> 0, nz |-> ~x.nz] ELSE [k |-> -x.k, nz |-> FALSE]
Abs(k) == IF k < 0 THEN -k ELSE k
\* the distance between neighbouring floats at magnitude a: the floats are
\* the numbers m * 2^e with m < 2^Precision; 1 / One is the smallest distance
\* considered
RECURSIVE Spacing(_, _)
Spacing(a, s) == IF a < (2 ^ Precision) * s THEN s ELSE Spacing(a, 2 * s)
Ulp(a) == Spacing(a, 1)
\* the result of an arithmetic operation whose exact value is k: the nearest
\* float, the one with the even mantissa when k is half way between two
Round(k) ==
  LET a == Abs(k)
      s == Ulp(a)
      q == a \div s
      up == 2 * (a % s) > s \/ (2 * (a % s) = s /\ q % 2 = 1)
      m == IF up THEN (q + 1) * s ELSE q * s
  IN IF k < 0 THEN -m ELSE m
\* 1.0 - x : rounded to a float; the result is never -0.0
OneMinus(x) == [k |-> Round(One - x.k), nz |-> FALSE]
\* a variant that prints a float with fewer digits than it has
Format_short(x) == [num |-> TRUE, k |-> (x.k \div 2) * 2, nz |-> x.nz, canon |-> TRUE]
\* f"{x}" : Python's shortest repr of the float, which float() reads back as x
Format(x) == [num |-> TRUE, k |-> x.k, nz |-> x.nz, canon |-> TRUE]
\* str.split()
split(s) == s.toks
\* f"{a} {b} {c}"
Join(toks) == JStr(toks, TRUE)

(***************************************************************************)
(* Diagnostics                                                             *)
(***************************************************************************)
NoKey == <<>>
LogEntry(msg, key, arg) == [msg |-> msg, key |-> key, arg |-> arg]
log_message(lg, entry) == Append(lg, entry)

Ok(val, lg) == [exc |-> "none", val |-> val, log |-> lg]
Raise(e, val, lg) == [exc |-> e, val |-> val, log |-> lg]

\* map(float, s.split()) unpacked into exactly n names succeeds
Unpacks(s, n) == Len(split(s)) = n /\ \A i \in 1..n : split(s)[i].num

\* [f(v) for v in val], given the outcomes rs of f on the elements of the
\* list val: the new list, or the first exception raised
ListComp(rs, val) ==
  LET bad == {i \in 1..Len(rs) : rs[i].exc # "none"}
      upto == IF bad = {} THEN Len(rs) ELSE Min(bad) - 1
      lg == Flatten([i \in 1..upto |-> rs[i].log])
  IN IF bad = {} THEN Ok(JList([i \in 1..Len(rs) |-> rs[i].val]), lg)
     ELSE Raise(rs[Min(bad)].exc, val, lg)

\* for v in val, where val is not a list: an int or null is not iterable (a
\* field that the code iterates holds a list, a number or null in the
\* documents considered here, never a string or a mapping)
NotIterable(val) == Raise("TypeError", val, <<>>)

\* the state of the work on one block: its entries, the diagnostics so far,
\* the exception that ended the work ("none" while it goes on)
BlockState(d, lg, e) == [d |-> d, log |-> lg, exc |-> e]

\* shape_data[f] = value, where r is the outcome of the expression on the
\* right hand side; nothing is done once an exception has ended the work
AssignStep(st, f, r) ==
  IF st.exc # "none" THEN st
  ELSE IF r.exc = "none" THEN BlockState(Put(st.d, f, r.val), st.log \o r.log, "none")
  ELSE BlockState(st.d, st.log \o r.log, r.exc)

\* a variant that also takes a key naming the shape without its data
HasMarker_prefix(key) ==
  \E i \in 1..Len(key) : key[i] \in {"NiTriShapeData", "NiTriShape"}

\* "NiTriShapeData" in key
HasMarker(key) == \E i \in 1..Len(key) : key[i] = "NiTriShapeData"

\* f"{t[2]} {t[1]} {t[0]}"
ReverseWinding(t) == Join(<<t[3], t[2], t[1]>>)

\* a variant that exchanges the first and the second index of each group
SwapFlat_first_second(l) ==
  [i \in 1..Len(l) |-> IF i % 3 = 1 THEN l[i + 1] ELSE IF i % 3 = 2 THEN l[i - 1] ELSE l[i]]

\* for i in range(0, len(l), 3): l[i], l[i+2] = l[i+2], l[i]
SwapFlat(l) ==
  [i \in 1..Len(l) |-> IF i % 3 = 1 THEN l[i + 2] ELSE IF i % 3 = 0 THEN l[i - 2] ELSE l[i]]

(***************************************************************************)
(* _TES3_automirror_NIF_X.py                                               *)
(***************************************************************************)
\* a variant that changes the sign of y instead of x
mirror_coordinates_y(coords) ==
  IF coords.t # "str" THEN Raise("AttributeError", coords, <<>>)
  ELSE IF Unpacks(coords, 3)
       THEN LET tk == split(coords)
            IN Ok(Join(<<Format(float(tk[1])), Format(Negate(float(tk[2]))),
                         Format(float(tk[3]))>>), <<>>)
       ELSE Ok(coords, <<LogEntry("Error mirroring coordinates", NoKey, coords)>>)

mirror_coordinates(coords) ==
  IF coords.t # "str" THEN Raise("AttributeError", coords, <<>>)
  ELSE IF Unpacks(coords, 3)
       THEN LET tk == split(coords)
            IN Ok(Join(<<Format(Negate(float(tk[1]))), Format(float(tk[2])),
                         Format(float(tk[3]))>>), <<>>)
       ELSE Ok(coords, <<LogEntry("Error mirroring coordinates", NoKey, coords)>>)

\* a variant that leaves out the strings it cannot mirror
mirror_coordinates_list_dropping(val) ==
  IF val.t # "list" THEN NotIterable(val)
  ELSE LET IsGood(c) == c.t # "str" \/ Unpacks(c, 3)
           good == SelectSeq(val.l, IsGood)
       IN ListComp([i \in 1..Len(good) |-> mirror_coordinates(good[i])], val)

mirror_coordinates_list(val) ==
  IF val.t # "list" THEN NotIterable(val)
  ELSE ListComp([i \in 1..Len(val.l) |-> mirror_coordinates(val.l[i])], val)

\* a variant that skips an unsupported triangle list without a warning
triangles_NIF_X_silent(st, key) ==
  IF st.exc # "none" \/ ~Has(st.d, "Triangles") THEN st
  ELSE LET triangles == Get(st.d, "Triangles")
       IN IF triangles.t # "list" THEN BlockState(st.d, st.log, "TypeError")
          ELSE IF \A i \in 1..Len(triangles.l) : triangles.l[i].t = "str"
          THEN LET split_triangles == [i \in 1..Len(triangles.l) |-> split(triangles.l[i])]
                   IsTriple(t) == Len(t) = 3
                   kept == SelectSeq(split_triangles, IsTriple)
                   processed_triangles == [i \in 1..Len(kept) |-> ReverseWinding(kept[i])]
               IN BlockState(Put(st.d, "Triangles", JList(processed_triangles)), st.log, "none")
          ELSE IF Len(triangles.l) % 3 = 0
          THEN BlockState(Put(st.d, "Triangles", JList(SwapFlat(triangles.l))), st.log, "none")
          ELSE st

\* the Triangles part of process_model_data (NIF_X)
triangles_NIF_X(st, key) ==
  IF st.exc # "none" \/ ~Has(st.d, "Triangles") THEN st
  ELSE LET triangles == Get(st.d, "Triangles")
       IN IF triangles.t # "list" THEN BlockState(st.d, st.log, "TypeError")
          ELSE IF \A i \in 1..Len(triangles.l) : triangles.l[i].t = "str"
          THEN LET split_triangles == [i \in 1..Len(triangles.l) |-> split(triangles.l[i])]
                   IsTriple(t) == Len(t) = 3
                   kept == SelectSeq(split_triangles, IsTriple)
                   processed_triangles == [i \in 1..Len(kept) |-> ReverseWinding(kept[i])]
               IN BlockState(Put(st.d, "Triangles", JList(processed_triangles)), st.log, "none")
          ELSE IF Len(triangles.l) % 3 = 0
          THEN BlockState(Put(st.d, "Triangles", JList(SwapFlat(triangles.l))), st.log, "none")
          ELSE BlockState(st.d,
                 log_message(st.log, LogEntry("Warning: Unsupported triangle format", key, JNull)),
                 "none")

\* a variant that builds the block anew from the four fields it mirrors
shape_data_NIF_X_rebuilt(d, key) ==
  LET s0 == BlockState(d, <<>>, "none")
      s1 == IF Has(d, "Vertices")
            THEN AssignStep(s0, "Vertices", mirror_coordinates_list(Get(d, "Vertices")))
            ELSE s0
      s2 == IF Has(d, "Normals")
            THEN AssignStep(s1, "Normals", mirror_coordinates_list(Get(d, "Normals")))
            ELSE s1
      s3 == IF Has(d, "Center")
            THEN AssignStep(s2, "Center", mirror_coordinates(Get(d, "Center")))
            ELSE s2
      s4 == triangles_NIF_X(s3, key)
      IsMirrored(e) == e.k \in {"Vertices", "Normals", "Center", "Triangles"}
  IN IF s4.exc = "none" THEN BlockState(SelectSeq(s4.d, IsMirrored), s4.log, "none")
     ELSE BlockState(s4.d,
            log_message(s4.log, LogEntry("Error processing shape data", key, JNull)),
            "none")

\* the body of the loop of process_model_data (NIF_X) for one mapping block:
\* the try block and its except clause
shape_data_NIF_X(d, key) ==
  LET s0 == BlockState(d, <<>>, "none")
      s1 == IF Has(d, "Vertices")
            THEN AssignStep(s0, "Vertices", mirror_coordinates_list(Get(d, "Vertices")))
            ELSE s0
      s2 == IF Has(d, "Normals")
            THEN AssignStep(s1, "Normals", mirror_coordinates_list(Get(d, "Normals")))
            ELSE s1
      s3 == IF Has(d, "Center")
            THEN AssignStep(s2, "Center", mirror_coordinates(Get(d, "Center")))
            ELSE s2
      s4 == triangles_NIF_X(s3, key)
  IN IF s4.exc = "none" THEN s4
     ELSE BlockState(s4.d,
            log_message(s4.log, LogEntry("Error processing shape data", key, JNull)),
            "none")

\* the state of a call: the document, the diagnostics, the exception raised
CallState(m, lg, e) == [doc |-> m, log |-> lg, exc |-> e]

RECURSIVE loop_NIF_X(_, _)
loop_NIF_X(st, i) ==
  IF i > Len(st.doc) THEN st
  ELSE LET key == st.doc[i].k
           shape_data == st.doc[i].v
       IN IF ~HasMarker(key) THEN loop_NIF_X(st, i + 1)
          ELSE IF shape_data.t # "dict"
          THEN loop_NIF_X(CallState(st.doc,
                 log_message(st.log, LogEntry("Warning: Unexpected data format", key, JNull)),
                 "none"), i + 1)
          ELSE LET b == shape_data_NIF_X(shape_data.d, key)
               IN loop_NIF_X(CallState([st.doc EXCEPT ![i] = Entry(key, JDict(b.d))],
                                       st.log \o b.log, "none"), i + 1)

process_model_data_NIF_X(model_data) == loop_NIF_X(CallState(model_data, <<>>, "none"), 1)

(***************************************************************************)
(* _TES3_automirror_NIF.py : no exception is caught inside the transform   *)
(***************************************************************************)
mirror_vertex(vertex) ==
  IF vertex.t # "str" THEN Raise("AttributeError", vertex, <<>>)
  ELSE IF Unpacks(vertex, 3)
       THEN LET tk == split(vertex)
            IN Ok(Join(<<Format(Negate(float(tk[1]))), Format(float(tk[2])),
                         Format(float(tk[3]))>>), <<>>)
       ELSE Raise("ValueError", vertex, <<>>)

mirror_normal(normal) ==
  IF normal.t # "str" THEN Raise("AttributeError", normal, <<>>)
  ELSE IF Unpacks(normal, 3)
       THEN LET tk == split(normal)
            IN Ok(Join(<<Format(Negate(float(tk[1]))), Format(float(tk[2])),
                         Format(float(tk[3]))>>), <<>>)
       ELSE Raise("ValueError", normal, <<>>)

mirror_vertex_list(val) ==
  IF val.t # "list" THEN NotIterable(val)
  ELSE ListComp([i \in 1..Len(val.l) |-> mirror_vertex(val.l[i])], val)

mirror_normal_list(val) ==
  IF val.t # "list" THEN NotIterable(val)
  ELSE ListComp([i \in 1..Len(val.l) |-> mirror_normal(val.l[i])], val)

\* the inline mirror of Center in process_model_data (NIF)
mirror_center_NIF(center) ==
  IF center.t # "str" THEN Raise("AttributeError", center, <<>>)
  ELSE IF Unpacks(center, 3)
       THEN LET tk == split(center)
            IN Ok(Join(<<Format(Negate(float(tk[1]))), Format(float(tk[2])),
                         Format(float(tk[3]))>>), <<>>)
       ELSE Raise("ValueError", center, <<>>)

\* the Triangles part of process_model_data (NIF)
triangles_NIF(st, key) ==
  IF st.exc # "none" \/ ~Has(st.d, "Triangles") THEN st
  ELSE LET triangles == Get(st.d, "Triangles")
       IN IF triangles.t # "list" THEN BlockState(st.d, st.log, "TypeError")
          ELSE IF \A i \in 1..Len(triangles.l) : triangles.l[i].t = "str"
          THEN LET split_triangles == [i \in 1..Len(triangles.l) |-> split(triangles.l[i])]
               IN IF \E i \in 1..Len(split_triangles) : Len(split_triangles[i]) < 3
                  THEN BlockState(st.d,
                         log_message(st.log,
                           LogEntry("Warning: Malformed triangle data", key, JNull)),
                         "none")
                  ELSE BlockState(Put(st.d, "Triangles",
                           JList([i \in 1..Len(split_triangles) |->
                                     ReverseWinding(split_triangles[i])])),
                         st.log, "none")
          ELSE IF Len(triangles.l) % 3 = 0
          THEN BlockState(Put(st.d, "Triangles", JList(SwapFlat(triangles.l))), st.log, "none")
          ELSE BlockState(st.d,
                 log_message(st.log, LogEntry("Warning: Unsupported triangle format", key, JNull)),
                 "none")

\* the body of the loop of process_model_data (NIF) for one mapping block
shape_data_NIF(d, key) ==
  LET s0 == BlockState(d, <<>>, "none")
      s1 == IF Has(d, "Vertices")
            THEN AssignStep(s0, "Vertices", mirror_vertex_list(Get(d, "Vertices")))
            ELSE s0
      s2 == IF Has(d, "Normals")
            THEN AssignStep(s1, "Normals", mirror_normal_list(Get(d, "Normals")))
            ELSE s1
      s3 == IF Has(d, "Center")
            THEN AssignStep(s2, "Center", mirror_center_NIF(Get(d, "Center")))
            ELSE s2
  IN triangles_NIF(s3, key)

RECURSIVE loop_NIF(_, _)
loop_NIF(st, i) ==
  IF i > Len(st.doc) \/ st.exc # "none" THEN st
  ELSE LET key == st.doc[i].k
           shape_data == st.doc[i].v
       IN IF ~HasMarker(key) THEN loop_NIF(st, i + 1)
          \* "Vertices" in shape_data : a string or a list of the model has
          \* no field name in it, an int or null is not a container
          ELSE IF shape_data.t \in {"str", "list"} THEN loop_NIF(st, i + 1)
          ELSE IF shape_data.t # "dict" THEN CallState(st.doc, st.log, "TypeError")
          ELSE LET b == shape_data_NIF(shape_data.d, key)
               IN loop_NIF(CallState([st.doc EXCEPT ![i] = Entry(key, JDict(b.d))],
                                     st.log \o b.log, b.exc), i + 1)

process_model_data_NIF(model_data) == loop_NIF(CallState(model_data, <<>>, "none"), 1)

(***************************************************************************)
(* _TES3_automirror_UVW_X_Y.py                                             *)
(***************************************************************************)
\* a variant that takes the two axes for each other
mirror_uv_swapped(uv_coords, mirror_type) ==
  IF uv_coords.t # "str" THEN Raise("AttributeError", uv_coords, <<>>)
  ELSE IF Unpacks(uv_coords, 2)
       THEN LET tk == split(uv_coords)
            IN IF mirror_type = "y"
               THEN Ok(Join(<<Format(OneMinus(float(tk[1]))), Format(float(tk[2]))>>), <<>>)
               ELSE IF mirror_type = "x"
               THEN Ok(Join(<<Format(float(tk[1])), Format(OneMinus(float(tk[2])))>>), <<>>)
               ELSE Ok(uv_coords, <<LogEntry("Warning: Unknown mirror type", NoKey, uv_coords)>>)
       ELSE Ok(uv_coords, <<LogEntry("Error mirroring UV coords", NoKey, uv_coords)>>)

mirror_uv(uv_coords, mirror_type) ==
  IF uv_coords.t # "str" THEN Raise("AttributeError", uv_coords, <<>>)
  ELSE IF Unpacks(uv_coords, 2)
       THEN LET tk == split(uv_coords)
            IN IF mirror_type = "x"
               THEN Ok(Join(<<Format(OneMinus(float(tk[1]))), Format(float(tk[2]))>>), <<>>)
               ELSE IF mirror_type = "y"
               THEN Ok(Join(<<Format(float(tk[1])), Format(OneMinus(float(tk[2])))>>), <<>>)
               ELSE Ok(uv_coords, <<LogEntry("Warning: Unknown mirror type", NoKey, uv_coords)>>)
       ELSE Ok(uv_coords, <<LogEntry("Error mirroring UV coords", NoKey, uv_coords)>>)

\* [mirror_uv(uv, mirror_type) for uv in uv_set], for a list uv_set
mirror_uv_list(uv_set, mirror_type) ==
  ListComp([i \in 1..Len(uv_set.l) |-> mirror_uv(uv_set.l[i], mirror_type)], uv_set)

\* bool(value)
Truthy(v) ==
  CASE v.t = "list" -> Len(v.l) > 0
    [] v.t = "dict" -> Len(v.d) > 0
    [] v.t = "str" -> Len(v.toks) > 0 \/ ~v.sp
    [] v.t = "int" -> v.i # 0
    [] v.t = "null" -> FALSE

\* a variant that mirrors every UV set of the block that is a list
shape_data_UV_all_sets(d, key, mirror_type) ==
  LET st == BlockState(d, <<>>, "none")
      failed(e) == BlockState(d, <<LogEntry("Error processing UV data", key, JNull)>>, "none")
  IN IF ~Has(d, "UV Sets") THEN st
     ELSE LET uv_sets == Get(d, "UV Sets")
          IN IF ~Truthy(uv_sets) THEN st
             ELSE IF uv_sets.t = "int" THEN failed("TypeError")
             ELSE IF uv_sets.t = "dict" THEN failed("KeyError")
             ELSE IF uv_sets.t = "str" THEN st
             ELSE LET MirrorSet(uv_set) ==
                        IF Truthy(uv_set) /\ uv_set.t = "list"
                        THEN mirror_uv_list(uv_set, mirror_type) ELSE Ok(uv_set, <<>>)
                      r == ListComp([i \in 1..Len(uv_sets.l) |-> MirrorSet(uv_sets.l[i])],
                                    uv_sets)
                  IN IF r.exc # "none"
                     THEN BlockState(d, r.log \o failed(r.exc).log, "none")
                     ELSE BlockState(Put(d, "UV Sets", r.val), r.log, "none")

\* the try block of process_model_uv and its except clause
shape_data_UV(d, key, mirror_type) ==
  LET st == BlockState(d, <<>>, "none")
      failed(e) == BlockState(d, <<LogEntry("Error processing UV data", key, JNull)>>, "none")
  IN IF ~Has(d, "UV Sets") THEN st
     ELSE LET uv_sets == Get(d, "UV Sets")
          IN IF ~Truthy(uv_sets) THEN st
             \* value[0] : an int has no items, a mapping has no key 0, the
             \* first character of a string is not a list
             ELSE IF uv_sets.t = "int" THEN failed("TypeError")
             ELSE IF uv_sets.t = "dict" THEN failed("KeyError")
             ELSE IF uv_sets.t = "str" THEN st
             ELSE LET uv_set == uv_sets.l[1]
                  IN IF ~(Truthy(uv_set) /\ uv_set.t = "list") THEN st
                     ELSE LET r == mirror_uv_list(uv_set, mirror_type)
                          IN IF r.exc # "none"
                             THEN BlockState(d, r.log \o failed(r.exc).log, "none")
                             ELSE BlockState(
                                    Put(d, "UV Sets", JList([uv_sets.l EXCEPT ![1] = r.val])),
                                    r.log, "none")

RECURSIVE loop_UV(_, _, _)
loop_UV(st, i, mirror_type) ==
  IF i > Len(st.doc) THEN st
  ELSE LET key == st.doc[i].k
           shape_data == st.doc[i].v
       IN IF ~HasMarker(key) THEN loop_UV(st, i + 1, mirror_type)
          ELSE IF shape_data.t # "dict"
          THEN loop_UV(CallState(st.doc,
                 log_message(st.log, LogEntry("Warning: Unexpected data format", key, JNull)),
                 "none"), i + 1, mirror_type)
          ELSE LET b == shape_data_UV(shape_data.d, key, mirror_type)
               IN loop_UV(CallState([st.doc EXCEPT ![i] = Entry(key, JDict(b.d))],
                                    st.log \o b.log, "none"), i + 1, mirror_type)

process_model_uv(model_data, mirror_type) ==
  loop_UV(CallState(model_data, <<>>, "none"), 1, mirror_type)

(***************************************************************************)
(* Input documents                                                         *)
(***************************************************************************)
\* tokens: "1.0"-like (printed as Python prints the float), "1"-like (a
\* number written differently), and a token float() rejects
Canon(k) == [num |-> TRUE, k |-> k, nz |-> FALSE, canon |-> TRUE]
Plain(k) == [num |-> TRUE, k |-> k, nz |-> FALSE, canon |-> FALSE]
NotANumber == [num |-> FALSE, k |-> 0, nz |-> FALSE, canon |-> FALSE]

S_xyz == Join(<<Canon(4), Canon(8), Canon(12)>>)               \* "1.0 2.0 3.0"
S_012 == Join(<<Plain(0), Plain(4), Plain(8)>>)                 \* "0 1 2"
S_uv == Join(<<Canon(1), Canon(3)>>)                            \* "0.25 0.75"
S_bad == Join(<<Canon(4), NotANumber, Canon(12)>>)              \* "1.0 x 3.0"
S_0123 == Join(<<Plain(0), Plain(4), Plain(8), Plain(12)>>)     \* "0 1 2 3"
S_wide == JStr(<<Plain(12), Plain(16), Plain(20)>>, FALSE)      \* " 3  4  5 "

S_10 == Join(<<Plain(4), Canon(2)>>)                            \* "1 0.5"
\* a pair whose 1.0 - u and 1.0 - v fall half way between two floats, as those
\* of "-9007199254740992 -9007199254740992" do in Python
S_far == Join(<<Canon(-5), Canon(-5)>>)

\* what a list of a geometry field may hold: strings, well-formed for the
\* field or not, and a number
CoordElems == {S_xyz, S_012, S_bad, S_uv, JInt(7)}
TriangleElems == {S_012, S_wide, S_uv, S_0123, JInt(7)}
UVElems == {S_uv, S_10, S_far, S_xyz, JInt(7)}

\* all lists of at most n elements of S
ListsUpTo(S, n) == UNION {[1..m -> S] : m \in 0..n}
JLists(S, n) == {JList(l) : l \in ListsUpTo(S, n)}

\* the flat triangle list [0, 1, ..., n-1]
Flat(n) == JList([i \in 1..n |-> JInt(i - 1)])
FlatLists == {Flat(n) : n \in 1..(3 * MaxTri + 1)}
\* a list of the right length that mixes numbers and strings
MixedList == JList(<<JInt(0), S_012, JInt(2)>>)

\* a field the block does not have
Absent == [t |-> "absent"]
FieldNames == <<"Vertices", "Normals", "Center", "Triangles", "UV Sets", "Flags">>
\* the block with the given values of the fields, those Absent left out
Block(v, n, c, tr, u, o) ==
  LET vals == <<v, n, c, tr, u, o>>
      IsThere(i) == vals[i] # Absent
      idx == SelectSeq(<<1, 2, 3, 4, 5, 6>>, IsThere)
  IN JDict([j \in 1..Len(idx) |-> Entry(FieldNames[idx[j]], vals[idx[j]])])

GoodCoords == JList(<<S_xyz, S_012>>)
GoodTriangles == JList(<<S_012, S_wide>>)
UVSet2 == JList(<<S_uv, S_uv>>)

\* the values a field takes when it is the one that varies
RichCoords == JLists(CoordElems, MaxList) \cup {JNull}
RichTriangles == JLists(TriangleElems, MaxList) \cup FlatLists \cup {MixedList, JNull, JInt(7)}
RichUVSets ==
  {Absent, JNull, JInt(0), JInt(7), JList(<<>>), JList(<<JInt(7), UVSet2>>),
   JList(<<JNull, UVSet2>>), JList(<<S_uv, UVSet2>>)}
    \cup {JList(<<first>>) : first \in JLists(UVElems, MaxList)}
    \cup {JList(<<first, UVSet2>>) : first \in JLists(UVElems, MaxList)}

\* the other fields of a block, next to the field that varies: absent, of
\* the documented type, or of another type
Others(a, b, c) == [a |-> a, b |-> b, c |-> c]
NextToVertices ==
  {Others(Absent, Absent, Absent), Others(GoodCoords, S_xyz, GoodTriangles),
   Others(GoodCoords, S_xyz, Flat(6)), Others(JList(<<JInt(7)>>), S_xyz, GoodTriangles),
   Others(Absent, Flat(3), Flat(6)), Others(Absent, S_bad, GoodTriangles)}
NextToNormals ==
  {Others(Absent, Absent, Absent), Others(GoodCoords, S_012, Flat(3)),
   Others(JList(<<JInt(7)>>), S_012, GoodTriangles)}
NextToTriangles ==
  {Others(Absent, Absent, Absent), Others(GoodCoords, S_xyz, Absent),
   Others(GoodCoords, Flat(3), Absent), Others(JList(<<JInt(7)>>), Absent, Absent)}
NextToUVSets ==
  {Others(Absent, Absent, Absent), Others(JList(<<S_xyz>>), GoodTriangles, Absent),
   Others(JList(<<S_xyz>>), Flat(6), Absent)}

Blocks ==
  {Block(v, o.a, o.b, o.c, Absent, JInt(7)) : v \in RichCoords, o \in NextToVertices}
  \cup {Block(o.a, n, o.b, o.c, Absent, Absent) : n \in RichCoords, o \in NextToNormals}
  \cup {Block(o.a, Absent, o.b, tr, JList(<<UVSet2>>), Absent) :
          tr \in RichTriangles, o \in NextToTriangles}
  \cup {Block(o.a, Absent, Absent, o.b, u, JInt(7)) : u \in RichUVSets, o \in NextToUVSets}

\* values of a geometry key used next to another block
FewValues ==
  {Block(JList(<<S_xyz, S_012>>), JList(<<S_xyz>>), S_xyz, JList(<<S_012>>),
         JList(<<JList(<<S_uv>>), UVSet2>>), JInt(7)),
   Block(JList(<<S_xyz>>), Absent, Flat(3), JList(<<S_012>>), Absent, Absent),
   Block(JList(<<S_bad>>), Absent, Absent, Flat(3), JList(<<JList(<<S_bad>>)>>), Absent),
   Block(JList(<<S_xyz>>), Absent, Absent, JList(<<S_uv>>), Absent, Absent),
   Block(Absent, Absent, Absent, Absent, Absent, Absent),
   S_xyz, JList(<<S_xyz>>), JInt(7), JNull}

\* values of a key without the marker: a block like a geometry block, a string
OtherValues ==
  {Block(JList(<<S_xyz>>), Absent, S_xyz, JList(<<S_012>>), JList(<<JList(<<S_uv>>)>>), Absent),
   S_xyz}

KeyA == <<"1", "NiTriShapeData">>
KeyB == <<"3", "NiTriShapeData">>
KeyNode == <<"0", "NiNode">>
KeyShape == <<"2", "NiTriShape">>

Documents ==
  {<<Entry(KeyA, b)>> : b \in Blocks}
  \cup {<<Entry(KeyNode, o), Entry(KeyA, a)>> : o \in OtherValues, a \in FewValues}
  \cup {<<Entry(KeyA, a), Entry(KeyShape, o)>> : o \in OtherValues, a \in FewValues}
  \cup {<<Entry(KeyA, a), Entry(KeyB, b)>> : a \in FewValues, b \in FewValues}
  \cup {<<Entry(KeyA, a), Entry(KeyShape, o), Entry(KeyB, b)>> :
          a \in FewValues, o \in OtherValues, b \in FewValues}

(***************************************************************************)
(* The state machine: a document is loaded, then transforms are applied to *)
(* it one after the other, each to the result of the one before            *)
(***************************************************************************)
\* processed_base_files, files_created, files_skipped of process_files of the
\* ice retexturing script, as they are when the function is entered
NoCounters == [processed_base_files |-> 0, files_created |-> 0, files_skipped |-> 0]

\* errors = {"id": [], "mesh": []} of process_files of a convert script
NoErrors == [id |-> <<>>, mesh |-> <<>>]

\* no script is running
NoBatch ==
  /\ script = "none"
  /\ fs = <<>>
  /\ phase = "idle"
  /\ files_to_process = <<>>
  /\ pos = 1
  /\ success_count = 0
  /\ attempts = <<>>
  /\ batchlog = <<>>
  /\ written = <<>>
  /\ earlier = <<>>
  /\ counters = NoCounters
  /\ entries = <<>>
  /\ errors = NoErrors

Init ==
  /\ source \in Documents
  /\ prev = source
  /\ doc = source
  /\ log = <<>>
  /\ exc = "none"
  /\ calls = <<>>
  /\ argument = source
  /\ NoBatch

CanCall == Len(calls) < MaxCalls /\ exc = "none"

\* a call of a transform on the document doc.  The transform assigns to the
\* entries of the mappings of its argument and returns the argument itself
\* (return model_data): the object that was passed in, argument, holds after the
\* call what the call returns (or what it held when the exception was raised)
Apply(r, name) ==
  /\ prev' = doc
  /\ doc' = r.doc
  /\ argument' = r.doc
  /\ log' = r.log
  /\ exc' = r.exc
  /\ calls' = Append(calls, name)
  /\ UNCHANGED source
  /\ UNCHANGED bvars

\* process_model_data of _TES3_automirror_NIF.py
RunNIF == CanCall /\ Apply(process_model_data_NIF(doc), "NIF")

\* process_model_data of _TES3_automirror_NIF_X.py
RunNIF_X == CanCall /\ Apply(process_model_data_NIF_X(doc), "NIF_X")

\* process_model_uv(model, 'x') and process_model_uv(model, 'y')
RunUV == \E mirror_type \in {"x", "y"} :
           CanCall /\ Apply(process_model_uv(doc, mirror_type), "UV" \o mirror_type)

Next == RunNIF \/ RunNIF_X \/ RunUV

Spec == Init /\ [][Next]_vars

(***************************************************************************)
(* Files.  A file name is the sequence of its pieces, "rock_m.nif.json" is *)
(* <<"rock", "_m", ".nif.json">>; the pieces of the names considered are   *)
(* such that a suffix or the extension occurs in a name exactly where it   *)
(* is one of the pieces.  The directory fs maps each name to what is       *)
(* there: a JSON document, a text that is not JSON, a file that cannot be  *)
(* opened, a directory.                                                    *)
(***************************************************************************)
extension == ".nif.json"
mirror_suffix == "_m"
x_suffix == "a"
y_suffix == "b"

\* sub in name
Contains(name, sub) == \E i \in 1..Len(name) : name[i] = sub
\* name.endswith(sub), name.startswith(sub)
endswith(name, sub) == Len(name) > 0 /\ name[Len(name)] = sub
startswith(name, sub) == Len(name) > 0 /\ name[1] = sub
\* name.replace(old, "")
replace(name, old) == LET Stays(piece) == piece # old IN SelectSeq(name, Stays)

JsonFile(d) == [kind |-> "json", doc |-> d]
TextFile == [kind |-> "text"]
LockedFile == [kind |-> "locked"]
Directory == [kind |-> "dir"]

\* entry.is_file()
is_file(fsys, name) == fsys[name].kind # "dir"
\* open(path, 'r') succeeds
CanRead(fsys, path) == path \in DOMAIN fsys /\ fsys[path].kind \notin {"dir", "locked"}
\* open(path, 'w') succeeds: the file is created, or truncated if it is there
CanWrite(fsys, path) == path \notin DOMAIN fsys \/ fsys[path].kind \notin {"dir", "locked"}
\* json.dump(model, f) into the file opened for writing
WriteFile(fsys, path, model) ==
  [n \in DOMAIN fsys \cup {path} |-> IF n = path THEN JsonFile(model) ELSE fsys[n]]

\* find_json_files: the names it returns; the order is that of the listing
find_json_files_NIF(fsys) ==
  {f \in DOMAIN fsys :
     endswith(f, extension) /\ ~startswith(f, "mirrored_") /\ ~Contains(f, mirror_suffix)}

\* a variant that does not leave out the names with the mirror suffix
find_json_files_NIF_X_all(fsys) ==
  {f \in DOMAIN fsys :
     is_file(fsys, f) /\ endswith(f, extension) /\ ~startswith(f, "mirrored_")}

find_json_files_NIF_X(fsys) ==
  {f \in DOMAIN fsys :
     /\ is_file(fsys, f)
     /\ endswith(f, extension) /\ ~startswith(f, "mirrored_") /\ ~Contains(f, mirror_suffix)}

find_json_files_UVW(fsys) ==
  {f \in DOMAIN fsys :
     /\ is_file(fsys, f)
     /\ endswith(f, extension) /\ ~startswith(f, "mirrored_")
     /\ ~Contains(f, x_suffix) /\ ~Contains(f, y_suffix)}

find_json_files(scr, fsys) ==
  CASE scr = "NIF" -> find_json_files_NIF(fsys)
    [] scr = "NIF_X" -> find_json_files_NIF_X(fsys)
    [] scr = "UVW" -> find_json_files_UVW(fsys)

\* the orders in which a listing may give the names of S
Orders(S) ==
  {q \in [1..Cardinality(S) -> S] : \A i, j \in 1..Cardinality(S) : q[i] = q[j] => i = j}

\* what process_single_file leaves: its return value, the directory, the
\* diagnostics it emitted, the paths it wrote
FileResult(ok, fsys, lg, wr) == [ok |-> ok, fs |-> fsys, log |-> lg, written |-> wr]

\* a variant that leaves the name as it is
output_filename_same(filename) == filename

\* f"{base_name}{CONFIG['mirror_suffix']}.nif.json" of main (NIF, NIF_X)
output_filename(filename) == replace(filename, extension) \o <<mirror_suffix, extension>>

\* output_filename_x, output_filename_y of process_single_file (UVW)
output_filename_UVW(filename, suffix) ==
  LET base_name == replace(filename, extension)
  IN IF Contains(base_name, mirror_suffix)
     THEN LET first == Min({i \in 1..Len(base_name) : base_name[i] = mirror_suffix})
              rest == SubSeq(base_name, first + 1, Len(base_name))
              ends == {i \in 1..Len(rest) : rest[i] = mirror_suffix} \cup {Len(rest) + 1}
              \* split_name[0], split_name[1]
              split_name_0 == SubSeq(base_name, 1, first - 1)
              split_name_1 == SubSeq(rest, 1, Min(ends) - 1)
          IN split_name_0 \o <<suffix, mirror_suffix>> \o split_name_1 \o <<extension>>
     ELSE base_name \o <<suffix, extension>>

\* the end of process_single_file (NIF, NIF_X), given the outcome r of the
\* transform: an exception of the transform is caught and reported, else the
\* result is written to output_path
write_output(fsys, input_path, output_path, r) ==
  IF r.exc # "none" \/ ~CanWrite(fsys, output_path)
  THEN FileResult(FALSE, fsys,
                  r.log \o <<LogEntry("Error processing", input_path, JNull)>>, <<>>)
  ELSE FileResult(TRUE, WriteFile(fsys, output_path, r.doc), r.log, <<output_path>>)

\* process_single_file of _TES3_automirror_NIF.py: one except clause
process_single_file_NIF(fsys, input_path, output_path) ==
  IF ~CanRead(fsys, input_path) \/ fsys[input_path].kind # "json"
  THEN FileResult(FALSE, fsys, <<LogEntry("Error processing", input_path, JNull)>>, <<>>)
  ELSE write_output(fsys, input_path, output_path,
                    process_model_data_NIF(fsys[input_path].doc))

\* a variant that opens the destination file before it reads the input
process_single_file_NIF_X_write_first(fsys, input_path, output_path) ==
  IF ~CanWrite(fsys, output_path)
  THEN FileResult(FALSE, fsys, <<LogEntry("Error processing", input_path, JNull)>>, <<>>)
  ELSE IF ~CanRead(fsys, input_path)
  THEN FileResult(FALSE, WriteFile(fsys, output_path, <<>>),
                  <<LogEntry("Error processing", input_path, JNull)>>, <<output_path>>)
  ELSE IF fsys[input_path].kind # "json"
  THEN FileResult(FALSE, WriteFile(fsys, output_path, <<>>),
                  <<LogEntry("Error parsing JSON in", input_path, JNull)>>, <<output_path>>)
  ELSE write_output(fsys, input_path, output_path,
                    process_model_data_NIF_X(fsys[input_path].doc))

\* process_single_file of _TES3_automirror_NIF_X.py
process_single_file_NIF_X(fsys, input_path, output_path) ==
  IF ~CanRead(fsys, input_path)
  THEN FileResult(FALSE, fsys, <<LogEntry("Error processing", input_path, JNull)>>, <<>>)
  ELSE IF fsys[input_path].kind # "json"
  THEN FileResult(FALSE, fsys, <<LogEntry("Error parsing JSON in", input_path, JNull)>>, <<>>)
  ELSE write_output(fsys, input_path, output_path,
                    process_model_data_NIF_X(fsys[input_path].doc))

\* the end of process_single_file (UVW), given the outcomes of the two
\* transforms: both documents are written, first x, then y
write_outputs_UVW(fsys, input_path, mirrored_x, mirrored_y) ==
  LET output_path_x == output_filename_UVW(input_path, x_suffix)
      output_path_y == output_filename_UVW(input_path, y_suffix)
      failed(fsys2, wr) ==
        FileResult(FALSE, fsys2,
                   mirrored_x.log \o mirrored_y.log
                     \o <<LogEntry("Error processing", input_path, JNull)>>, wr)
  IN IF mirrored_x.exc # "none" \/ mirrored_y.exc # "none" \/ ~CanWrite(fsys, output_path_x)
     THEN failed(fsys, <<>>)
     ELSE IF ~CanWrite(WriteFile(fsys, output_path_x, mirrored_x.doc), output_path_y)
     THEN failed(WriteFile(fsys, output_path_x, mirrored_x.doc), <<output_path_x>>)
     ELSE FileResult(TRUE,
            WriteFile(WriteFile(fsys, output_path_x, mirrored_x.doc),
                      output_path_y, mirrored_y.doc),
            mirrored_x.log \o mirrored_y.log
              \o <<LogEntry("->", input_path, [name |-> output_path_x]),
                   LogEntry("->", input_path, [name |-> output_path_y])>>,
            <<output_path_x, output_path_y>>)

\* a variant in which the two transforms work on one document, the one that
\* was loaded
process_single_file_UVW_shared(fsys, input_path) ==
  IF ~CanRead(fsys, input_path)
  THEN FileResult(FALSE, fsys, <<LogEntry("Error processing", input_path, JNull)>>, <<>>)
  ELSE IF fsys[input_path].kind # "json"
  THEN FileResult(FALSE, fsys, <<LogEntry("Error parsing JSON in", input_path, JNull)>>, <<>>)
  ELSE write_outputs_UVW(fsys, input_path,
         process_model_uv(process_model_uv(fsys[input_path].doc, "x").doc, "y"),
         process_model_uv(process_model_uv(fsys[input_path].doc, "x").doc, "y"))

\* process_single_file of _TES3_automirror_UVW_X_Y.py: each transform is given
\* its own copy of the document, json.loads(json.dumps(model_json))
process_single_file_UVW(fsys, input_path) ==
  IF ~CanRead(fsys, input_path)
  THEN FileResult(FALSE, fsys, <<LogEntry("Error processing", input_path, JNull)>>, <<>>)
  ELSE IF fsys[input_path].kind # "json"
  THEN FileResult(FALSE, fsys, <<LogEntry("Error parsing JSON in", input_path, JNull)>>, <<>>)
  ELSE write_outputs_UVW(fsys, input_path,
                         process_model_uv(fsys[input_path].doc, "x"),
                         process_model_uv(fsys[input_path].doc, "y"))

\* process_single_file of the script scr for the file name of the loop
process_single_file(scr, fsys, filename) ==
  IF scr = "NIF" THEN process_single_file_NIF(fsys, filename, output_filename(filename))
  ELSE IF scr = "NIF_X"
  THEN process_single_file_NIF_X(fsys, filename, output_filename(filename))
  ELSE process_single_file_UVW(fsys, filename)

\* the line main logs for the file, given what process_single_file returned
main_line(scr, filename, r) ==
  IF ~r.ok THEN [r EXCEPT !.log = @ \o <<LogEntry("[FAIL]", filename, JNull)>>]
  ELSE IF scr = "UVW" THEN r
  ELSE [r EXCEPT !.log = @ \o <<LogEntry("->", filename,
                                         [name |-> output_filename(filename)])>>]

\* the body of the loop of main for one file name
loop_body(scr, fsys, filename) ==
  main_line(scr, filename, process_single_file(scr, fsys, filename))

\* a variant that leaves the loop at the first file that fails
for_next_break(files, at, ok) == IF ok THEN at + 1 ELSE Len(files) + 1

\* for filename in files_to_process: the place of the next name to take,
\* whatever the body returned for this one
for_next(files, at, ok) == at + 1

(***************************************************************************)
(* The state machine of a run of main(): a script is started in a          *)
(* directory, lists the files to process, takes them one after the other   *)
(* and reports                                                             *)
(***************************************************************************)
N_rock == <<"rock", extension>>
N_tree == <<"tree", extension>>
N_rock_m == <<"rock", mirror_suffix, extension>>
N_notes == <<"notes", ".txt">>
\* "rock.nif.json.nif.json", "x_my_mz.nif.json", "x_my_mq.nif.json",
\* "mirrored_rock.nif.json"
N_rock_2 == <<"rock", extension, extension>>
N_x_y_z == <<"x", mirror_suffix, "y", mirror_suffix, "z", extension>>
N_x_y_q == <<"x", mirror_suffix, "y", mirror_suffix, "q", extension>>
N_mirrored == <<"mirrored_", "rock", extension>>
PlainNames == {N_rock, N_tree, N_rock_m, N_notes}
Names == PlainNames \cup {N_rock_2, N_x_y_z, N_x_y_q, N_mirrored}

\* a document every script transforms, and one with a coordinate string that
\* is not 3 numbers
D_good ==
  <<Entry(KeyA, Block(JList(<<S_xyz>>), Absent, Absent, JList(<<S_012>>),
                      JList(<<JList(<<S_uv, S_10>>), UVSet2>>), Absent))>>
D_bad ==
  <<Entry(KeyA, Block(JList(<<S_bad>>), Absent, Absent, JList(<<S_012>>),
                      JList(<<JList(<<S_uv>>)>>), Absent))>>

\* what may be found under a name
Contents(name) ==
  IF ~endswith(name, extension) THEN {TextFile}
  ELSE IF name \in PlainNames
  THEN {JsonFile(D_good), JsonFile(D_bad), TextFile, LockedFile, Directory}
  ELSE {JsonFile(D_good), JsonFile(D_bad)}

\* the directories of at most MaxFiles entries
Directories ==
  UNION {{d \in [S -> UNION {Contents(n) : n \in S}] : \A n \in S : d[n] \in Contents(n)} :
           S \in {T \in SUBSET Names : Cardinality(T) <= MaxFiles}}

\* no transform is applied outside a run
NoTransform ==
  /\ source = <<>>
  /\ prev = <<>>
  /\ doc = <<>>
  /\ log = <<>>
  /\ exc = "none"
  /\ calls = <<>>
  /\ argument = <<>>

BatchInit ==
  /\ script \in {"NIF", "NIF_X", "UVW"}
  /\ fs \in Directories
  /\ phase = "start"
  /\ files_to_process = <<>>
  /\ pos = 1
  /\ success_count = 0
  /\ attempts = <<>>
  /\ batchlog = <<>>
  /\ written = <<>>
  /\ earlier = <<>>
  /\ counters = NoCounters
  /\ entries = <<>>
  /\ errors = NoErrors
  /\ NoTransform

\* the line that ends the log
LastLine == LogEntry("The ending of the words is ALMSIVI", NoKey, JNull)

\* main up to its loop: the log file is emptied, the files are listed
MainStart ==
  /\ phase = "start"
  /\ \E order \in Orders(find_json_files(script, fs)) :
       /\ files_to_process' = order
       /\ phase' = IF order = <<>> THEN "done" ELSE "loop"
       /\ batchlog' = IF order # <<>> THEN <<LogEntry("Found", NoKey, JInt(Len(order)))>>
                      ELSE IF script = "NIF"
                      THEN <<LogEntry("No .nif.json files found", NoKey, JNull)>>
                      ELSE <<LogEntry("No .nif.json files found", NoKey, JNull), LastLine>>
  /\ pos' = 1
  /\ success_count' = 0
  /\ UNCHANGED <<script, fs, attempts, written, earlier, counters, entries, errors,
                 tvars>>

\* the loop of main takes note of the outcome r of its body for filename and
\* goes to the next name
NextFile(filename, r) ==
  /\ fs' = r.fs
  /\ batchlog' = batchlog \o r.log
  /\ success_count' = IF r.ok THEN success_count + 1 ELSE success_count
  /\ attempts' = Append(attempts,
                    [file |-> filename, ok |-> r.ok, kind |-> fs[filename].kind])
  /\ written' = written \o [n \in 1..Len(r.written) |->
                              [from |-> filename, path |-> r.written[n]]]
  /\ pos' = for_next(files_to_process, pos, r.ok)

\* one turn of the loop of main
MainLoop ==
  /\ phase = "loop"
  /\ pos <= Len(files_to_process)
  /\ NextFile(files_to_process[pos], loop_body(script, fs, files_to_process[pos]))
  /\ UNCHANGED <<script, phase, files_to_process, earlier, counters, entries, errors,
                 tvars>>

\* main after its loop: the summary
MainEnd ==
  /\ phase = "loop"
  /\ pos > Len(files_to_process)
  /\ phase' = "done"
  /\ batchlog' = batchlog \o <<LogEntry("Processing complete", NoKey, JInt(success_count)),
                                 LastLine>>
  /\ UNCHANGED <<script, fs, files_to_process, pos, success_count, attempts, written,
                 earlier, counters, entries, errors, tvars>>

\* the script is started once more in the directory as the run left it; what
\* the run listed and wrote is kept in earlier
MainAgain ==
  /\ phase = "done"
  /\ Len(earlier) + 1 < MaxRuns
  /\ earlier' = Append(earlier, [files |-> files_to_process, written |-> written])
  /\ phase' = "start"
  /\ files_to_process' = <<>>
  /\ pos' = 1
  /\ success_count' = 0
  /\ attempts' = <<>>
  /\ batchlog' = <<>>
  /\ written' = <<>>
  /\ counters' = NoCounters
  /\ entries' = <<>>
  /\ errors' = NoErrors
  /\ UNCHANGED <<script, fs, tvars>>

BatchNext == MainStart \/ MainLoop \/ MainEnd \/ MainAgain

BatchSpec == BatchInit /\ [][BatchNext]_vars

(***************************************************************************)
(* The retexturing scripts (grass, rocks, snow, ice).  From each base file *)
(* of the first material a script makes one file per new affix, with the   *)
(* names of the shapes and the texture replaced.  A texture path is the    *)
(* record of its stem, its number and what follows the number:             *)
(* "textures\\tx_bm_rock_snow_01a.dds" is Texture("tx_bm_rock_snow_", 1,   *)
(* "a").  A name of a shape is the record of its text, the file name it    *)
(* holds and its number: "Tri Snow01_BM_S2:1" is                           *)
(* Name("Tri", <<"Snow01_BM", "_S2">>, 1), "Snow" is Name("Snow", <<>>, 0).*)
(***************************************************************************)
Texture(stem, i, tail) ==
  [t |-> "str", form |-> "texture", stem |-> stem, i |-> i, tail |-> tail]
Name(text, of, n) == [t |-> "str", form |-> "name", text |-> text, of |-> of, n |-> n]
\* an entry of "Children": the key of the block it names and the name in quotes,
\* '1 NiTriShape "Snow"' is Child(<<"1", "NiTriShape">>, Name("Snow", <<>>, 0))
Child(key, name) == [t |-> "str", form |-> "child", key |-> key, name |-> name]

\* [f"{stem}{i:02d}{tail}.dds" for i in range(from, to)]
Numbered(stem, from, to, tail) ==
  [n \in 1..(to - from) |-> Texture(stem, from + n - 1, tail)]

CONFIG_grass ==
  [base_name |-> "Hill01_BM",
   base_M1_affix |-> "_G2", base_M1_texture |-> Texture("tx_bm_grass_", 2, "")]
CONFIG_rocks ==
  [base_name |-> "Rock27_BM",
   base_M1_affix |-> "_R2", base_M1_texture |-> Texture("tx_bm_rock_", 2, "")]
CONFIG_snow ==
  [base_name |-> "Snow01_BM", base_NTS_name |-> Name("Snow", <<>>, 0),
   base_M1_affix |-> "_S2", base_M1_texture |-> Texture("tx_bm_Snow_", 2, "")]
CONFIG_ice ==
  [base_name |-> "Ice{num_part}_BM", base_NTS_name |-> Name("Ice", <<>>, 0),
   base_M1_affix |-> "_I2", base_M1_texture |-> Texture("tx_bm_Ice_", 2, "")]

CONFIG(scr) ==
  IF scr = "grass" THEN CONFIG_grass
  ELSE IF scr = "rocks" THEN CONFIG_rocks
  ELSE IF scr = "snow" THEN CONFIG_snow
  ELSE CONFIG_ice

\* suffixes = ["", "_m", "a", "a_m", "b", "b_m"], each the sequence of its pieces
suffixes ==
  << <<>>, <<mirror_suffix>>, <<x_suffix>>, <<x_suffix, mirror_suffix>>,
     <<y_suffix>>, <<y_suffix, mirror_suffix>> >>

new_M1_affixes_grass ==
  <<"_D1", "_DS1", "_G1", "_G2", "_G3", "_GD1", "_GS1", "_GS2", "_GS3", "_GSa2", "_PN1">>
new_M1_affixes_rocks ==
  <<"_I1", "_I2", "_I3", "_I4", "_I5", "_I6", "_R1", "_R2", "_R3",
    "_RS1", "_RS2", "_RS3", "_RSa1", "_RSa2",
    "_S1", "_S2", "_S3", "_S4", "_S5", "_SI1", "_SR1">>
new_M1_affixes_snow == <<"_S1", "_S2", "_S3", "_S4", "_S5", "_SI1", "_SR1">>
new_M1_affixes_ice == <<"_I1", "_I2", "_I3", "_I4", "_I5", "_I6">>

new_M1_affixes(scr) ==
  IF scr = "grass" THEN new_M1_affixes_grass
  ELSE IF scr = "rocks" THEN new_M1_affixes_rocks
  ELSE IF scr = "snow" THEN new_M1_affixes_snow
  ELSE new_M1_affixes_ice

generate_textures_grass ==
  <<Texture("tx_bm_dirt_", 1, "")>>
    \o <<Texture("tx_bm_dirt_snow_", 1, "")>>
    \o Numbered("tx_bm_grass_", 1, 4, "")
    \o <<Texture("tx_bm_grass_dirt_", 1, "")>>
    \o Numbered("tx_bm_grass_snow_", 1, 4, "")
    \o <<Texture("tx_bm_grass_snow_", 2, "a")>>
    \o <<Texture("tx_bm_pine_needles_", 1, "")>>
generate_textures_rocks ==
  Numbered("tx_bm_ice_", 1, 7, "")
    \o Numbered("tx_bm_rock_", 1, 4, "")
    \o Numbered("tx_bm_rock_snow_", 1, 4, "")
    \o Numbered("tx_bm_rock_snow_", 1, 3, "a")
    \o Numbered("tx_bm_snow_", 1, 6, "")
    \o <<Texture("tx_bm_snow_ice_", 1, "")>>
    \o <<Texture("tx_bm_snow_rock_", 1, "")>>
\* a variant with one snow texture fewer, range(1, 5)
generate_textures_snow_four ==
  Numbered("tx_bm_snow_", 1, 5, "")
    \o <<Texture("tx_bm_snow_ice_", 1, "")>>
    \o <<Texture("tx_bm_snow_rock_", 1, "")>>
generate_textures_snow ==
  Numbered("tx_bm_snow_", 1, 6, "")
    \o <<Texture("tx_bm_snow_ice_", 1, "")>>
    \o <<Texture("tx_bm_snow_rock_", 1, "")>>
generate_textures_ice == Numbered("tx_bm_ice_", 1, 7, "")

generate_textures(scr) ==
  IF scr = "grass" THEN generate_textures_grass
  ELSE IF scr = "rocks" THEN generate_textures_rocks
  ELSE IF scr = "snow" THEN generate_textures_snow
  ELSE generate_textures_ice

\* new_base_M1_texture[i % len(new_base_M1_texture)], for the i-th affix
\* counted from 1 (Python counts from 0)
new_texture_at(new_base_M1_texture, i) ==
  new_base_M1_texture[((i - 1) % Len(new_base_M1_texture)) + 1]

\* {f"{base_M1_affix}{suffix}": [f"{new}{suffix}" for new in new_M1_affixes]
\*  for suffix in suffixes}
generate_affix_mapping(sfx, new, base_M1_affix) ==
  [key \in {<<base_M1_affix>> \o sfx[n] : n \in 1..Len(sfx)} |->
     [i \in 1..Len(new) |-> <<new[i]>> \o SubSeq(key, 2, Len(key))]]

M1_affix_mapping(scr) ==
  generate_affix_mapping(suffixes, new_M1_affixes(scr), CONFIG(scr).base_M1_affix)

\* piece.lower(): of the pieces considered, those that lower-casing turns into
\* an extension
lower(piece) ==
  IF piece = ".NIF.JSON" THEN extension ELSE IF piece = ".NIF" THEN ".nif" ELSE piece

\* get_json_files
get_json_files(fsys) ==
  {f \in DOMAIN fsys : is_file(fsys, f) /\ Len(f) > 0 /\ lower(f[Len(f)]) = extension}

\* get_base_name_and_affix: (None, None) is the pair of "" and the empty affix
get_base_name_and_affix(filename, base_name) ==
  IF startswith(filename, base_name) /\ endswith(filename, extension)
  THEN [base |-> base_name, current_affix |-> SubSeq(filename, 2, Len(filename) - 1)]
  ELSE [base |-> "", current_affix |-> <<>>]

\* key in content and "NiTriShape" in key, isinstance(value, dict)
IsBlock(e, kind) == Contains(e.k, kind) /\ e.v.t = "dict"
\* value.get(field) == wanted
FieldIs(e, field, wanted) == Has(e.v.d, field) /\ Get(e.v.d, field) = wanted
\* mapping[field] = v
SetField(d, field, v) == IF Has(d, field) THEN Put(d, field, v) ELSE Append(d, Entry(field, v))

has_base_nitrishape(content, base_NTS_name) ==
  \E n \in 1..Len(content) :
    IsBlock(content[n], "NiTriShape") /\ FieldIs(content[n], "Name", base_NTS_name)

has_base_texture(content, base_M1_texture) ==
  \E n \in 1..Len(content) :
    IsBlock(content[n], "NiSourceTexture") /\ FieldIs(content[n], "File Name", base_M1_texture)

NiNodeKey == <<"0", "NiNode">>
\* content.get("0 NiNode", {}).get("Children", [])
children_of(content) ==
  IF Has(content, NiNodeKey) /\ Has(Get(content, NiNodeKey).d, "Children")
  THEN Get(Get(content, NiNodeKey).d, "Children").l
  ELSE <<>>

IsShapeChild(child) == Contains(child.key, "NiTriShape")
count_nitrishapes(children) ==
  Cardinality({j \in 1..Len(children) : IsShapeChild(children[j])})

\* f"Tri {base_name}{new_affix}:{n}"
new_name(base_name, new_affix, n) == Name("Tri", <<base_name>> \o new_affix, n)

\* the first loop of the update (snow, ice): each child that names a shape is
\* given the new name with its place in the list, and so is the block whose
\* key is the first word of the child, if there is one
update_children(content, base_name, new_affix) ==
  LET children == children_of(content)
      renamed == [j \in 1..Len(children) |->
                    IF IsShapeChild(children[j])
                    THEN [children[j] EXCEPT !.name = new_name(base_name, new_affix, j)]
                    ELSE children[j]]
      Named(e) == {j \in 1..Len(children) :
                     IsShapeChild(children[j]) /\ e.k = <<children[j].key[1]>>}
      Latest(S) == CHOOSE m \in S : \A n \in S : n <= m
  IN [n \in 1..Len(content) |->
        IF content[n].k = NiNodeKey
        THEN Entry(NiNodeKey, JDict(Put(content[n].v.d, "Children", JList(renamed))))
        ELSE IF Named(content[n]) # {}
        THEN Entry(content[n].k,
                   JDict(SetField(content[n].v.d, "Name",
                                  new_name(base_name, new_affix, Latest(Named(content[n]))))))
        ELSE content[n]]

\* the second loop: the blocks of shapes named base_NTS_name are renamed, the
\* counter nitrishape_counter is one more than the blocks renamed before
rename_shapes(content, base_name, new_affix, base_NTS_name) ==
  LET Renamed(n) == IsBlock(content[n], "NiTriShape")
                      /\ FieldIs(content[n], "Name", base_NTS_name)
      nitrishape_counter(n) == 1 + Cardinality({m \in 1..(n - 1) : Renamed(m)})
  IN [n \in 1..Len(content) |->
        IF Renamed(n)
        THEN Entry(content[n].k,
                   JDict(Put(content[n].v.d, "Name",
                             new_name(base_name, new_affix, nitrishape_counter(n)))))
        ELSE content[n]]

\* the third loop: the base texture is replaced
replace_texture(content, base_M1_texture, new_texture) ==
  [n \in 1..Len(content) |->
     IF IsBlock(content[n], "NiSourceTexture")
          /\ FieldIs(content[n], "File Name", base_M1_texture)
     THEN Entry(content[n].k, JDict(Put(content[n].v.d, "File Name", new_texture)))
     ELSE content[n]]

\* updated_content of the snow and ice scripts for one new affix
updated_content(content, base_name, new_affix, base_NTS_name, base_M1_texture, new_texture) ==
  replace_texture(
    rename_shapes(update_children(content, base_name, new_affix),
                  base_name, new_affix, base_NTS_name),
    base_M1_texture, new_texture)

\* s.replace(old, new) on sequences of pieces, for old not empty
RECURSIVE replace_with(_, _, _)
replace_with(s, old, new) ==
  IF Len(s) < Len(old) THEN s
  ELSE IF SubSeq(s, 1, Len(old)) = old
  THEN new \o replace_with(SubSeq(s, Len(old) + 1, Len(s)), old, new)
  ELSE <<Head(s)>> \o replace_with(Tail(s), old, new)

\* text.replace(old, new).replace(old_texture, new_texture) for the text of
\* a JSON value: the strings of the value are replaced where they stand
RECURSIVE replace_text(_, _, _, _, _)
replace_text(v, old, new, old_texture, new_texture) ==
  IF v.t = "dict"
  THEN JDict([n \in 1..Len(v.d) |->
                Entry(v.d[n].k, replace_text(v.d[n].v, old, new, old_texture, new_texture))])
  ELSE IF v.t = "list"
  THEN JList([n \in 1..Len(v.l) |-> replace_text(v.l[n], old, new, old_texture, new_texture)])
  ELSE IF v.t # "str" THEN v
  ELSE IF v.form = "child"
  THEN [v EXCEPT !.name = replace_text(v.name, old, new, old_texture, new_texture)]
  ELSE IF v.form = "name" THEN [v EXCEPT !.of = replace_with(v.of, old, new)]
  ELSE IF v.form = "texture" /\ v = old_texture THEN new_texture
  ELSE v

\* texture in text, for the text of a JSON value
RECURSIVE in_text(_, _)
in_text(texture, v) ==
  IF v.t = "dict" THEN \E n \in 1..Len(v.d) : in_text(texture, v.d[n].v)
  ELSE IF v.t = "list" THEN \E n \in 1..Len(v.l) : in_text(texture, v.l[n])
  ELSE v.t = "str" /\ v.form = "texture" /\ v = texture

\* new_content of the grass and rocks scripts for one new affix
new_content(content, base_name, current_affix, new_affix, base_M1_texture, new_texture) ==
  replace_text(JDict(content), <<base_name>> \o current_affix, <<base_name>> \o new_affix,
               base_M1_texture, new_texture).d

\* the scripts that read a file as text; the others load it as JSON
TextBased == {"grass", "rocks"}

\* what the loop over the valid files has done so far: the directory, the
\* diagnostics, the files created, the files taken, the two counters, and the
\* exception that left the loop ("none": the loop goes on)
Acc0(fsys) ==
  [fs |-> fsys, log |-> <<>>, written |-> <<>>, attempts |-> <<>>,
   files_created |-> 0, files_skipped |-> 0, exc |-> "none"]

\* the end of the body of the loop over the new affixes: the content made for
\* the affix is written to new_filename
write_variant(acc, filename, new_filename, i, new_texture, content) ==
  IF CanWrite(acc.fs, new_filename)
  THEN [acc EXCEPT !.fs = WriteFile(acc.fs, new_filename, content),
                   !.log = Append(@, LogEntry("File created", new_filename, JNull)),
                   !.written = Append(@, [from |-> filename, path |-> new_filename,
                                          i |-> i, texture |-> new_texture]),
                   !.files_created = @ + 1]
  ELSE [acc EXCEPT !.log = @ \o <<LogEntry("File created", new_filename, JNull),
                                  LogEntry("ERROR - Can't write", new_filename, JNull)>>]

\* the body of "for i, new_affix in enumerate(M1_affix_mapping[current_affix])"
variant(scr, base_name, filename, content, i, acc) ==
  LET current_affix == get_base_name_and_affix(filename, base_name).current_affix
      new_affix == M1_affix_mapping(scr)[current_affix][i]
      new_texture == new_texture_at(generate_textures(scr), i)
  IN write_variant(acc, filename, <<base_name>> \o new_affix \o <<extension>>, i, new_texture,
       IF scr \in TextBased
       THEN new_content(content, base_name, current_affix, new_affix,
                        CONFIG(scr).base_M1_texture, new_texture)
       ELSE updated_content(content, base_name, new_affix, CONFIG(scr).base_NTS_name,
                            CONFIG(scr).base_M1_texture, new_texture))

RECURSIVE write_variants(_, _, _, _, _, _)
write_variants(scr, base_name, filename, content, i, acc) ==
  IF i > Len(new_M1_affixes(scr)) THEN acc
  ELSE write_variants(scr, base_name, filename, content, i + 1,
                      variant(scr, base_name, filename, content, i, acc))

\* "Skipping file.": the file is left, with a diagnostic
skip_file(acc, msg, filename) ==
  [acc EXCEPT !.log = Append(@, LogEntry(msg, filename, JNull)),
              !.files_skipped = @ + 1]

\* the body of "for filename in valid_files" of the grass and rocks scripts:
\* the file is read as text
process_text_file(scr, base_name, filename, acc) ==
  IF ~CanRead(acc.fs, filename)
  THEN skip_file(acc, "ERROR - Can't read", filename)
  ELSE IF acc.fs[filename].kind # "json"
            \/ ~in_text(CONFIG(scr).base_M1_texture, JDict(acc.fs[filename].doc))
  THEN skip_file(acc, "WARNING - Texture not found", filename)
  ELSE write_variants(scr, base_name, filename, acc.fs[filename].doc, 1, acc)

\* a variant whose except clause also catches what json.load raises
process_json_file_caught(scr, base_name, filename, acc) ==
  IF ~CanRead(acc.fs, filename) \/ acc.fs[filename].kind # "json"
  THEN skip_file(acc, "ERROR - Can't read", filename)
  ELSE IF ~has_base_nitrishape(acc.fs[filename].doc, CONFIG(scr).base_NTS_name)
  THEN skip_file(acc, "WARNING - NiTriShape name not found", filename)
  ELSE IF ~has_base_texture(acc.fs[filename].doc, CONFIG(scr).base_M1_texture)
  THEN skip_file(acc, "WARNING - Texture not found", filename)
  ELSE IF count_nitrishapes(children_of(acc.fs[filename].doc)) = 0
  THEN skip_file(acc, "WARNING - No NiTriShape blocks found", filename)
  ELSE write_variants(scr, base_name, filename, acc.fs[filename].doc, 1, acc)

\* the body of "for filename in valid_files" of the snow and ice scripts: the
\* file is loaded with json.load inside try ... except (OSError, IOError), and
\* what json.load raises on a text that is not JSON is not an OSError
process_json_file(scr, base_name, filename, acc) ==
  IF ~CanRead(acc.fs, filename)
  THEN skip_file(acc, "ERROR - Can't read", filename)
  ELSE IF acc.fs[filename].kind # "json"
  THEN [acc EXCEPT !.exc = "JSONDecodeError"]
  ELSE IF ~has_base_nitrishape(acc.fs[filename].doc, CONFIG(scr).base_NTS_name)
  THEN skip_file(acc, "WARNING - NiTriShape name not found", filename)
  ELSE IF ~has_base_texture(acc.fs[filename].doc, CONFIG(scr).base_M1_texture)
  THEN skip_file(acc, "WARNING - Texture not found", filename)
  ELSE IF count_nitrishapes(children_of(acc.fs[filename].doc)) = 0
  THEN skip_file(acc, "WARNING - No NiTriShape blocks found", filename)
  ELSE write_variants(scr, base_name, filename, acc.fs[filename].doc, 1, acc)

\* the body of the loop, and the note of the file it took
process_file(scr, base_name, filename, acc) ==
  LET taken == [acc EXCEPT !.attempts =
                  Append(@, [file |-> filename, kind |-> acc.fs[filename].kind,
                             content |-> acc.fs[filename]])]
  IN IF scr \in TextBased THEN process_text_file(scr, base_name, filename, taken)
     ELSE process_json_file(scr, base_name, filename, taken)

\* for filename in valid_files, from the k-th on: an exception leaves the loop
RECURSIVE process_valid_files(_, _, _, _, _)
process_valid_files(scr, base_name, valid_files, k, acc) ==
  IF k > Len(valid_files) \/ acc.exc # "none" THEN acc
  ELSE process_valid_files(scr, base_name, valid_files, k + 1,
                           process_file(scr, base_name, valid_files[k], acc))

\* the files of the listing that have the base name, and of these the valid
\* ones: those whose affix is a key of the mapping
files_of(files, base_name) ==
  LET Matches(f) == get_base_name_and_affix(f, base_name).base # ""
  IN SelectSeq(files, Matches)
valid_files_of(scr, files, base_name) ==
  LET Valid(f) == get_base_name_and_affix(f, base_name).current_affix
                    \in DOMAIN M1_affix_mapping(scr)
  IN SelectSeq(files_of(files, base_name), Valid)
invalid_affix_files_of(scr, files, base_name) ==
  LET Invalid(f) == get_base_name_and_affix(f, base_name).current_affix
                      \notin DOMAIN M1_affix_mapping(scr)
  IN SelectSeq(files_of(files, base_name), Invalid)

\* f"{number:02d}" for the numbers of base_numbers that the files considered
\* bear, and base_name_template.format(num_part=num_part)
num_parts == <<"01", "02">>
format(num_part) == "Ice" \o num_part \o "_BM"

\* sorted(base_names) of the ice script: the base names that start a file of
\* the listing
sorted_base_names(all_files) ==
  LET Found(num_part) == \E n \in 1..Len(all_files) : startswith(all_files[n], format(num_part))
      found == SelectSeq(num_parts, Found)
  IN [n \in 1..Len(found) |-> format(found[n])]

\* the base names a run works on, one after the other
base_names_of(scr, files) ==
  IF scr = "ice" THEN sorted_base_names(files) ELSE <<CONFIG(scr).base_name>>

\* the lines that name the files of a list, after the line that heads them
listed_files(msg, listed) ==
  IF listed = <<>> THEN <<>>
  ELSE <<LogEntry(msg, NoKey, JNull)>>
         \o [n \in 1..Len(listed) |-> LogEntry("  -", listed[n], JNull)]

\* the body of "for base_name in sorted_base_names" of the ice script
process_base_ice(files, base_name, acc) ==
  IF files_of(files, base_name) = <<>>
  THEN [acc EXCEPT !.log = @ \o <<LogEntry("Processing base name", <<base_name>>, JNull),
                                  LogEntry("WARNING - No files found", <<base_name>>, JNull)>>]
  ELSE IF valid_files_of("ice", files, base_name) = <<>>
  THEN [acc EXCEPT !.log =
          @ \o <<LogEntry("Processing base name", <<base_name>>, JNull)>>
            \o listed_files("WARNING - Following files do not match the required affixes",
                            invalid_affix_files_of("ice", files, base_name))
            \o <<LogEntry("WARNING - No valid files found", <<base_name>>, JNull)>>]
  ELSE process_valid_files("ice", base_name, valid_files_of("ice", files, base_name), 1,
         [acc EXCEPT !.log =
            @ \o <<LogEntry("Processing base name", <<base_name>>, JNull)>>
              \o listed_files("WARNING - Following files do not match the required affixes",
                              invalid_affix_files_of("ice", files, base_name))])

\* what a run does for one base name
process_base(scr, files, base_name, acc) ==
  IF scr = "ice" THEN process_base_ice(files, base_name, acc)
  ELSE process_valid_files(scr, base_name, valid_files_of(scr, files, base_name), 1, acc)

\* what main logs after process_files
main_tail(scr, c) ==
  IF scr = "ice"
  THEN <<LogEntry("Processing complete!", NoKey, JNull),
         LogEntry("total files skipped", NoKey, JInt(c.files_skipped)),
         LogEntry("total files created", NoKey, JInt(c.files_created)),
         LastLine>>
  ELSE <<LastLine>>

\* what main logs when process_files raises
Unexpected(scr) ==
  <<LogEntry("ERROR - Unexpected error", NoKey, JNull)>> \o main_tail(scr, NoCounters)

\* process_files up to its loop, for the listing files: the diagnostics, and
\* whether the loop is entered.  With no file listed the grass and rocks scripts
\* leave with sys.exit(1), the snow script returns, the ice script returns None
\* to main, which unpacks three counters from it
before_loop(scr, files) ==
  LET base_name == CONFIG(scr).base_name
      Other(f) == get_base_name_and_affix(f, base_name).base = ""
      ended == IF scr \in TextBased THEN <<LastLine>> ELSE <<LastLine, LastLine>>
  IN IF files = <<>>
     THEN [enter |-> FALSE,
           log |-> IF scr = "ice"
                   THEN <<LogEntry("No .nif.json files found", NoKey, JNull), LastLine>>
                          \o Unexpected(scr)
                   ELSE <<LogEntry("ERROR - No .nif.json files found", NoKey, JNull)>>
                          \o ended]
     ELSE IF scr = "ice"
     THEN [enter |-> TRUE,
           log |-> <<LogEntry("Found", NoKey, JInt(Len(sorted_base_names(files))))>>]
     ELSE IF valid_files_of(scr, files, base_name) = <<>>
     THEN [enter |-> FALSE,
           log |-> listed_files("ERROR - Following files do not match the required base_name",
                                SelectSeq(files, Other))
                     \o listed_files(
                          "ERROR - Following files do not match the required base_M1_affix",
                          invalid_affix_files_of(scr, files, base_name))
                     \o <<LogEntry("ERROR - No valid files found", NoKey, JNull)>> \o ended]
     ELSE [enter |-> TRUE,
           log |-> listed_files("ERROR - Following files do not match the required base_name",
                                SelectSeq(files, Other))
                     \o listed_files(
                          "ERROR - Following files do not match the required base_M1_affix",
                          invalid_affix_files_of(scr, files, base_name))]

(***************************************************************************)
(* The state machine of a run of main() of a retexturing script: the files *)
(* are listed, the base names are taken one after the other (the grass,    *)
(* rocks and snow scripts have one), main reports.  files_to_process is    *)
(* the listing, pos the place of the base name to take.                    *)
(***************************************************************************)
\* a model with one shape of the given name and one texture
RDoc(name, texture) ==
  <<Entry(NiNodeKey,
          JDict(<<Entry("Children", JList(<<Child(<<"1", "NiTriShape">>, name)>>))>>)),
    Entry(<<"1", "NiTriShape">>, JDict(<<Entry("Name", name)>>)),
    Entry(<<"2", "NiSourceTexture">>, JDict(<<Entry("File Name", texture)>>))>>

\* the base name of the files of a directory for the script
first_base_name(scr) == IF scr = "ice" THEN format(num_parts[1]) ELSE CONFIG(scr).base_name

\* a base file, its mirror, a file a run makes from the base file, a file of
\* another model, a base file with the extension in capitals, a base file of
\* the second number (ice)
RetexNames(scr) ==
  {<<first_base_name(scr), CONFIG(scr).base_M1_affix, extension>>,
   <<first_base_name(scr), CONFIG(scr).base_M1_affix, mirror_suffix, extension>>,
   <<first_base_name(scr), new_M1_affixes(scr)[1], extension>>,
   <<first_base_name(scr), CONFIG(scr).base_M1_affix, ".NIF.JSON">>,
   N_rock}
  \cup (IF scr = "ice"
        THEN {<<format(num_parts[2]), CONFIG(scr).base_M1_affix, extension>>}
        ELSE {})

\* the name of the shape of the file as the script expects it: the text-based
\* scripts look for the name of the file in the text
shape_name(scr, name) ==
  IF scr \in TextBased THEN Name("Tri", SubSeq(name, 1, Len(name) - 1), 0)
  ELSE CONFIG(scr).base_NTS_name

\* what may be found under a name
RetexContents(scr, name) ==
  {JsonFile(RDoc(shape_name(scr, name), CONFIG(scr).base_M1_texture)),
   JsonFile(RDoc(shape_name(scr, name), Texture("tx_other_", 1, ""))),
   JsonFile(RDoc(Name("Other", <<>>, 0), CONFIG(scr).base_M1_texture)),
   TextFile, LockedFile}

RetexDirectories(scr) ==
  UNION {{d \in [S -> UNION {RetexContents(scr, n) : n \in S}] :
            \A n \in S : d[n] \in RetexContents(scr, n)} :
           S \in {T \in SUBSET RetexNames(scr) : Cardinality(T) <= MaxFiles}}

RetexInit ==
  /\ script \in {"grass", "rocks", "snow", "ice"}
  /\ fs \in RetexDirectories(script)
  /\ phase = "start"
  /\ files_to_process = <<>>
  /\ pos = 1
  /\ success_count = 0
  /\ attempts = <<>>
  /\ batchlog = <<>>
  /\ written = <<>>
  /\ earlier = <<>>
  /\ counters = NoCounters
  /\ entries = <<>>
  /\ errors = NoErrors
  /\ NoTransform

\* main up to the loop of process_files
RetexEnter(files, b) ==
  /\ files_to_process' = files
  /\ phase' = IF b.enter THEN "loop" ELSE "done"
  /\ batchlog' = b.log

\* the orders in which the directory may be listed: any order when the script
\* is first run; in a later run the files come as they came in the run before,
\* and after them the files that run created, as it created them
Listings(fsys, runs) ==
  IF runs = <<>> THEN Orders(get_json_files(fsys))
  ELSE LET last == runs[Len(runs)]
           New(w) == \A n \in 1..Len(last.files) : last.files[n] # w.path
           created == SelectSeq(last.written, New)
       IN {last.files \o [n \in 1..Len(created) |-> created[n].path]}

RetexStart ==
  /\ phase = "start"
  /\ \E order \in Listings(fs, earlier) : RetexEnter(order, before_loop(script, order))
  /\ pos' = 1
  /\ UNCHANGED <<script, fs, success_count, attempts, written, earlier, counters,
                 entries, errors, tvars>>

\* the loop takes note of what was done for the base name; an exception ends
\* process_files, main reports it (the ice script with three counters of 0)
BaseDone(r) ==
  /\ fs' = r.fs
  /\ attempts' = attempts \o r.attempts
  /\ written' = written \o r.written
  /\ pos' = pos + 1
  /\ phase' = IF r.exc # "none" THEN "done" ELSE "loop"
  /\ batchlog' = IF r.exc # "none" THEN batchlog \o r.log \o Unexpected(script)
                 ELSE batchlog \o r.log
  /\ counters' = IF script # "ice" THEN counters
                 ELSE IF r.exc # "none" THEN NoCounters
                 ELSE [processed_base_files |-> counters.processed_base_files + 1,
                       files_created |-> counters.files_created + r.files_created,
                       files_skipped |-> counters.files_skipped + r.files_skipped]

\* one base name of the loop of process_files
RetexBase ==
  /\ phase = "loop"
  /\ pos <= Len(base_names_of(script, files_to_process))
  /\ BaseDone(process_base(script, files_to_process,
                           base_names_of(script, files_to_process)[pos], Acc0(fs)))
  /\ UNCHANGED <<script, files_to_process, success_count, earlier, entries, errors, tvars>>

\* process_files returns, main reports
RetexEnd ==
  /\ phase = "loop"
  /\ pos > Len(base_names_of(script, files_to_process))
  /\ phase' = "done"
  /\ batchlog' = batchlog \o main_tail(script, counters)
  /\ UNCHANGED <<script, fs, files_to_process, pos, success_count, attempts, written,
                 earlier, counters, entries, errors, tvars>>

RetexNext == RetexStart \/ RetexBase \/ RetexEnd \/ MainAgain

RetexSpec == RetexInit /\ [][RetexNext]_vars

(***************************************************************************)
(* The convert scripts (ingredient, miscitem, static): from the name of    *)
(* each .nif file of the directory they make the id and the mesh path of a *)
(* record, and keep the record if both are short enough.  The length of a  *)
(* name is the sum of the lengths of its pieces; a piece of two            *)
(* backslashes is the separator as the miscitem and static scripts write   *)
(* it into their text.                                                     *)
(***************************************************************************)
max_length_id == 31
max_length_mesh == 31

prefix_id == "_RR_"
\* "rr\\f\\" of the ingredient script, "rr\\\\f\\\\" of the other two
prefix_mesh(scr) ==
  IF scr = "ingredient" THEN <<"rr", "\\", "f", "\\">> ELSE <<"rr", "\\\\", "f", "\\\\">>

output_file(scr) == <<"_TES3_convert_to_", scr, ".txt">>
log_file(scr) == <<"_TES3_convert_to_", scr, "_log", ".txt">>
\* os.path.basename(sys.argv[0]), output_file, log_file
ignored_files(scr) == {<<"_TES3_convert_to_", scr, ".py">>, output_file(scr), log_file(scr)}

\* len(s)
RECURSIVE len(_)
len(s) == IF s = <<>> THEN 0 ELSE Len(Head(s)) + len(Tail(s))

\* s.replace('\\\\', '\\')
unescape(s) == [n \in 1..Len(s) |-> IF s[n] = "\\\\" THEN "\\" ELSE s[n]]

\* get_nif_files
get_nif_files(fsys, ignored) ==
  {f \in DOMAIN fsys :
     is_file(fsys, f) /\ Len(f) > 0 /\ lower(f[Len(f)]) = ".nif" /\ f \notin ignored}

\* os.path.splitext(file)[0]: a name that is nothing but ".nif" has no extension
splitext(file) == IF Len(file) = 1 THEN file ELSE SubSeq(file, 1, Len(file) - 1)

\* f"{nif_name} (current {n} chars)", and None
TooLong(nif_name, n) == [error |-> TRUE, name |-> nif_name, chars |-> n]
None == [error |-> FALSE, name |-> <<>>, chars |-> 0]

\* a variant that also refuses a mesh path of exactly the greatest length
validate_length_below(nif_name, scr) ==
  LET full_id == <<prefix_id>> \o nif_name
      full_mesh == prefix_mesh(scr) \o nif_name \o <<".nif">>
      len_id == len(full_id)
      len_mesh == IF scr = "ingredient" THEN len(full_mesh) ELSE len(unescape(full_mesh))
  IN [full_id |-> full_id, full_mesh |-> full_mesh,
      error_id |-> IF len_id > max_length_id THEN TooLong(nif_name, len_id) ELSE None,
      error_mesh |-> IF len_mesh >= max_length_mesh THEN TooLong(nif_name, len_mesh)
                     ELSE None]

\* validate_length of the ingredient script, validate_records of the other
\* two, which measure the mesh path after replace('\\\\', '\\')
validate_length(nif_name, scr) ==
  LET full_id == <<prefix_id>> \o nif_name
      full_mesh == prefix_mesh(scr) \o nif_name \o <<".nif">>
      len_id == len(full_id)
      len_mesh == IF scr = "ingredient" THEN len(full_mesh) ELSE len(unescape(full_mesh))
  IN [full_id |-> full_id, full_mesh |-> full_mesh,
      error_id |-> IF len_id > max_length_id THEN TooLong(nif_name, len_id) ELSE None,
      error_mesh |-> IF len_mesh > max_length_mesh THEN TooLong(nif_name, len_mesh)
                     ELSE None]

\* generate_entry: the fields of the record that come from the file
generate_entry(full_id, full_mesh, scr) ==
  [type |-> scr, id |-> full_id, mesh |-> full_mesh]

\* the loop of process_files over the listing: the entries and the two lists
\* of errors, each in the order of the listing
entries_of(scr, files) ==
  LET Kept(f) == ~validate_length(splitext(f), scr).error_id.error
                   /\ ~validate_length(splitext(f), scr).error_mesh.error
      kept == SelectSeq(files, Kept)
  IN [n \in 1..Len(kept) |->
        generate_entry(validate_length(splitext(kept[n]), scr).full_id,
                       validate_length(splitext(kept[n]), scr).full_mesh, scr)]
errors_id_of(scr, files) ==
  LET Long(f) == validate_length(splitext(f), scr).error_id.error
      long == SelectSeq(files, Long)
  IN [n \in 1..Len(long) |-> validate_length(splitext(long[n]), scr).error_id]
errors_mesh_of(scr, files) ==
  LET Long(f) == validate_length(splitext(f), scr).error_mesh.error
      long == SelectSeq(files, Long)
  IN [n \in 1..Len(long) |-> validate_length(splitext(long[n]), scr).error_mesh]

\* write_file, write_output_file, write_log_file: the file is opened for
\* writing and given the content; an IOError is reported, no more
write_file(r, filepath, content) ==
  IF CanWrite(r.fs, filepath)
  THEN [r EXCEPT !.fs = [n \in DOMAIN r.fs \cup {filepath} |->
                           IF n = filepath THEN [kind |-> "written", content |-> content]
                           ELSE r.fs[n]],
                 !.written = Append(@, [from |-> <<>>, path |-> filepath, ok |-> TRUE])]
  ELSE [r EXCEPT !.written = Append(@, [from |-> <<>>, path |-> filepath, ok |-> FALSE]),
                 !.log = Append(@, LogEntry("ERROR - failed to write", filepath, JNull))]

\* the end of process_files: the output file if there are entries, the error
\* log if there are errors
write_results(scr, fsys, found, errs) ==
  LET output ==
        IF found # <<>>
        THEN write_file([fs |-> fsys, log |-> <<>>, written |-> <<>>], output_file(scr), found)
        ELSE [fs |-> fsys, written |-> <<>>,
              log |-> <<LogEntry("WARNING - there are no valid .nif files", NoKey, JNull)>>]
  IN IF errs.id # <<>> \/ errs.mesh # <<>>
     THEN write_file(output, log_file(scr), errs)
     ELSE output

(***************************************************************************)
(* The state machine of a run of a convert script: main lists the .nif     *)
(* files and process_files goes through the listing                        *)
(***************************************************************************)
\* names of 1, 22, 23, 27 and 28 characters: the mesh path of the second is
\* of the greatest length, the id of the fourth
NifStems == {"a", "barrel_of_22_character", "barrel_of_23_characters",
             "a_name_of_27_characters_xyz", "a_name_of_28_characters_wxyz"}
ConvertNames(scr) ==
  {<<stem, ".nif">> : stem \in NifStems}
    \cup {<<"a", ".b", ".nif">>, <<"a", ".NIF">>, <<".nif">>, N_rock, output_file(scr),
          log_file(scr)}

\* what may be found under a name
ConvertContents(scr, name) ==
  IF name \in {output_file(scr), log_file(scr)} THEN {TextFile, LockedFile}
  ELSE IF name = <<"a", ".nif">> THEN {TextFile, Directory}
  ELSE {TextFile}

ConvertDirectories(scr) ==
  UNION {{d \in [S -> UNION {ConvertContents(scr, n) : n \in S}] :
            \A n \in S : d[n] \in ConvertContents(scr, n)} :
           S \in {T \in SUBSET ConvertNames(scr) : Cardinality(T) <= MaxFiles}}

ConvertInit ==
  /\ script \in {"ingredient", "miscitem", "static"}
  /\ fs \in ConvertDirectories(script)
  /\ phase = "start"
  /\ files_to_process = <<>>
  /\ pos = 1
  /\ success_count = 0
  /\ attempts = <<>>
  /\ batchlog = <<>>
  /\ written = <<>>
  /\ earlier = <<>>
  /\ counters = NoCounters
  /\ entries = <<>>
  /\ errors = NoErrors
  /\ NoTransform

\* process_files leaves what it found and what it wrote
Converted(files, found, errs, r) ==
  /\ files_to_process' = files
  /\ entries' = found
  /\ errors' = errs
  /\ fs' = r.fs
  /\ written' = r.written
  /\ batchlog' = r.log \o <<LastLine>>

\* main lists the files; with none, process_files ends the script
ConvertStart ==
  /\ phase = "start"
  /\ \E order \in Orders(get_nif_files(fs, ignored_files(script))) :
       /\ files_to_process' = order
       /\ phase' = IF order = <<>> THEN "done" ELSE "loop"
       /\ batchlog' = IF order = <<>>
                      THEN <<LogEntry("ERROR - no .nif files found", NoKey, JNull), LastLine>>
                      ELSE <<>>
  /\ UNCHANGED <<script, fs, pos, success_count, attempts, written, earlier, counters,
                 entries, errors, tvars>>

\* the loop of process_files and the writing of the results
ConvertFiles ==
  /\ phase = "loop"
  /\ Converted(files_to_process, entries_of(script, files_to_process),
               [id |-> errors_id_of(script, files_to_process),
                mesh |-> errors_mesh_of(script, files_to_process)],
               write_results(script, fs, entries_of(script, files_to_process),
                             [id |-> errors_id_of(script, files_to_process),
                              mesh |-> errors_mesh_of(script, files_to_process)]))
  /\ phase' = "done"
  /\ UNCHANGED <<script, pos, success_count, attempts, earlier, counters, tvars>>

ConvertNext == ConvertStart \/ ConvertFiles \/ MainAgain

ConvertSpec == ConvertInit /\ [][ConvertNext]_vars

(***************************************************************************)
(* Vocabulary of the properties.  A property speaks of the last call: prev *)
(* is the document the call was given, doc the document it left, log the   *)
(* diagnostics it emitted, exc the exception it raised ("none": returned). *)
(***************************************************************************)
Called == Len(calls) > 0
Last == calls[Len(calls)]
\* a position mirror (either NIF script) was applied and returned
PositionMirrored == Called /\ Last \in {"NIF", "NIF_X"} /\ exc = "none"
UVMirrored == Called /\ Last \in {"UVx", "UVy"}

\* the key contains the marker
Marked(key) == \E i \in DOMAIN key : key[i] = "NiTriShapeData"
\* the places of the document given to the call that hold a geometry block
\* whose value is a mapping
GeometryBlocks == {i \in 1..Len(prev) : Marked(prev[i].k) /\ prev[i].v.t = "dict"}
Before(i) == prev[i].v.d
After(i) == doc[i].v.d

IsStringList(v) == v.t = "list" /\ \A j \in 1..Len(v.l) : v.l[j].t = "str"
\* a string of exactly n tokens, all numbers
WellFormed(s, n) == s.t = "str" /\ Len(s.toks) = n /\ \A j \in 1..n : s.toks[j].num
\* a string of exactly 3 tokens, numbers or not
IsTriangle(s) == s.t = "str" /\ Len(s.toks) = 3

\* Vertices and Normals are lists of strings and Center is a string, where
\* the block has them: the coordinate fields have the type of the data model
CoordsTyped(d) ==
  /\ Has(d, "Vertices") => IsStringList(Get(d, "Vertices"))
  /\ Has(d, "Normals") => IsStringList(Get(d, "Normals"))
  /\ Has(d, "Center") => Get(d, "Center").t = "str"

\* r is the triple p with the sign of x changed and y, z as they were
IsXMirrorOf(r, p) ==
  /\ WellFormed(r, 3)
  /\ r.toks[1].k = 0 - p.toks[1].k
  /\ r.toks[2].k = p.toks[2].k
  /\ r.toks[3].k = p.toks[3].k

\* every well-formed triple of the list field f of block pd is mirrored in rd,
\* at the same place of a list of the same length
ListMirrored(pd, rd, f) ==
  Has(pd, f) =>
    /\ Has(rd, f)
    /\ Get(rd, f).t = "list"
    /\ Len(Get(rd, f).l) = Len(Get(pd, f).l)
    /\ \A j \in 1..Len(Get(pd, f).l) :
         WellFormed(Get(pd, f).l[j], 3) => IsXMirrorOf(Get(rd, f).l[j], Get(pd, f).l[j])

CoordsMirrored(pd, rd) ==
  /\ ListMirrored(pd, rd, "Vertices")
  /\ ListMirrored(pd, rd, "Normals")
  /\ (Has(pd, "Center") /\ WellFormed(Get(pd, "Center"), 3)) =>
        (Has(rd, "Center") /\ IsXMirrorOf(Get(rd, "Center"), Get(pd, "Center")))

IsReversalOf(r, p) ==
  /\ IsTriangle(r)
  /\ r.toks[1] = p.toks[3]
  /\ r.toks[2] = p.toks[2]
  /\ r.toks[3] = p.toks[1]

\* the Triangles field is a non-empty list of well-formed "a b c" strings
TrianglesWellFormed(d) ==
  /\ Has(d, "Triangles")
  /\ Get(d, "Triangles").t = "list"
  /\ Len(Get(d, "Triangles").l) > 0
  /\ \A j \in 1..Len(Get(d, "Triangles").l) : IsTriangle(Get(d, "Triangles").l[j])

TrianglesReversed(pd, rd) ==
  /\ Has(rd, "Triangles")
  /\ Get(rd, "Triangles").t = "list"
  /\ Len(Get(rd, "Triangles").l) = Len(Get(pd, "Triangles").l)
  /\ \A j \in 1..Len(Get(pd, "Triangles").l) :
       IsReversalOf(Get(rd, "Triangles").l[j], Get(pd, "Triangles").l[j])

\* the call has given the block a new Vertices value
VerticesMirrored(pd, rd) ==
  Has(pd, "Vertices") /\ Has(rd, "Vertices") /\ Get(rd, "Vertices") # Get(pd, "Vertices")

\* C2: after a position mirror has returned, in every geometry block whose
\* Triangles is a list of well-formed "a b c" strings and whose Vertices the
\* call has mirrored, every triangle (a, b, c) has become (c, b, a) at the
\* same place of the list: no path mirrors Vertices and leaves well-formed
\* Triangles unreversed.
C2_WindingAlwaysReversed ==
  PositionMirrored =>
    \A i \in GeometryBlocks :
      (TrianglesWellFormed(Before(i)) /\ doc[i].v.t = "dict"
         /\ VerticesMirrored(Before(i), After(i)))
        => TrianglesReversed(Before(i), After(i))

\* a non-empty flat list of integers whose length is a multiple of 3
IsFlatTriangles(v) ==
  /\ v.t = "list" /\ Len(v.l) > 0 /\ Len(v.l) % 3 = 0
  /\ \A j \in 1..Len(v.l) : v.l[j].t = "int"

HasFirstUVSet(d) ==
  /\ Has(d, "UV Sets")
  /\ Get(d, "UV Sets").t = "list"
  /\ Len(Get(d, "UV Sets").l) > 0
  /\ IsStringList(Get(d, "UV Sets").l[1])
  /\ Len(Get(d, "UV Sets").l[1].l) > 0

\* k is a float: a multiple of the distance between the floats around it
Representable(k) == Abs(k) % Ulp(Abs(k)) = 0
\* k is a float and no float is nearer to the number x than k is
IsNearestFloat(k, x) ==
  /\ Representable(k)
  /\ \A q \in (x - Abs(k - x) + 1)..(x + Abs(k - x) - 1) : ~Representable(q)

\* r is the pair p reflected on the axis: u' is 1 - u on axis U ('x'), v' is
\* 1 - v on axis V ('y'), as a float (1 - u itself when that is a float, the
\* nearest float otherwise), the other component as it was
IsUVMirrorOf(r, p, mirror_type) ==
  /\ WellFormed(r, 2)
  /\ mirror_type = "x" => (/\ IsNearestFloat(r.toks[1].k, One - p.toks[1].k)
                           /\ r.toks[2].k = p.toks[2].k)
  /\ mirror_type = "y" => (/\ r.toks[1].k = p.toks[1].k
                           /\ IsNearestFloat(r.toks[2].k, One - p.toks[2].k))

MirrorTypeOf(call) == IF call = "UVx" THEN "x" ELSE "y"

\* C4: after process_model_uv, in every geometry block whose first UV set is
\* a list of strings, every well-formed pair (u, v) of that set has become
\* (1 - u, v) for mirror type 'x' and (u, 1 - v) for mirror type 'y', at the
\* same place of a list of the same length.
C4_UVMirror ==
  UVMirrored =>
    \A i \in GeometryBlocks :
      HasFirstUVSet(Before(i))
        => /\ doc[i].v.t = "dict"
           /\ Has(After(i), "UV Sets")
           /\ Get(After(i), "UV Sets").t = "list"
           /\ Len(Get(After(i), "UV Sets").l) > 0
           /\ LET p == Get(Before(i), "UV Sets").l[1].l
                  r == Get(After(i), "UV Sets").l[1]
              IN /\ r.t = "list"
                 /\ Len(r.l) = Len(p)
                 /\ \A j \in 1..Len(p) :
                      WellFormed(p[j], 2) => IsUVMirrorOf(r.l[j], p[j], MirrorTypeOf(Last))

\* "0.25 0.75", second of its set, became "0.75 0.75" under 'x' and then
\* "0.75 0.25" under 'y'
C4_Witness ==
  /\ calls = <<"UVx", "UVy">>
  /\ \E i \in GeometryBlocks :
       /\ Marked(source[i].k) /\ source[i].v.t = "dict"
       /\ HasFirstUVSet(source[i].v.d)
       /\ Len(Get(source[i].v.d, "UV Sets").l[1].l) = 2
       /\ Get(source[i].v.d, "UV Sets").l[1].l[2] = S_uv
       /\ Get(Before(i), "UV Sets").l[1].l[2] = Join(<<Canon(3), Canon(3)>>)
       /\ Get(After(i), "UV Sets").l[1].l[2] = Join(<<Canon(3), Canon(1)>>)

\* C5: process_model_uv changes nothing of a geometry block but element 0 of
\* "UV Sets": the block has the same fields in the same order, every field
\* other than "UV Sets" (Vertices, Normals, Center, Triangles among them) has
\* the value it had, and "UV Sets" has as many sets as before, those of index
\* 1 and more identical.
C5_UVFrame ==
  UVMirrored =>
    \A i \in GeometryBlocks :
      /\ doc[i].v.t = "dict"
      /\ Len(After(i)) = Len(Before(i))
      /\ \A n \in 1..Len(Before(i)) :
           /\ After(i)[n].k = Before(i)[n].k
           /\ Before(i)[n].k # "UV Sets" => After(i)[n].v = Before(i)[n].v
           /\ Before(i)[n].k = "UV Sets" =>
                IF Before(i)[n].v.t = "list"
                THEN /\ After(i)[n].v.t = "list"
                     /\ Len(After(i)[n].v.l) = Len(Before(i)[n].v.l)
                     /\ \A j \in 2..Len(Before(i)[n].v.l) :
                          After(i)[n].v.l[j] = Before(i)[n].v.l[j]
                ELSE After(i)[n].v = Before(i)[n].v

\* the first UV set was mirrored in a block that has well-formed triangles
\* and a second UV set
C5_Witness ==
  /\ UVMirrored
  /\ \E i \in GeometryBlocks :
       /\ TrianglesWellFormed(Before(i))
       /\ HasFirstUVSet(Before(i))
       /\ Len(Get(Before(i), "UV Sets").l) = 2
       /\ Get(Before(i), "UV Sets").l[2] = UVSet2
       /\ Get(After(i), "UV Sets").l[1] # Get(Before(i), "UV Sets").l[1]

\* C6: a transform leaves the top-level keys and their order as they were,
\* and the value of every key that does not contain the marker identical.
C6_OtherBlocksUntouched ==
  Called =>
    /\ Len(doc) = Len(prev)
    /\ \A i \in 1..Len(prev) :
         /\ doc[i].k = prev[i].k
         /\ ~Marked(prev[i].k) => doc[i].v = prev[i].v

\* a block that looks like geometry under a key without the marker stands
\* next to a geometry block that the call has changed
C6_Witness ==
  /\ Called /\ Len(doc) = Len(prev)
  /\ \E i, j \in 1..Len(prev) :
       /\ ~Marked(prev[i].k)
       /\ prev[i].v.t = "dict"
       /\ Has(prev[i].v.d, "Vertices")
       /\ Marked(prev[j].k)
       /\ doc[j].v # prev[j].v

MirroredFields == {"Vertices", "Normals", "Center", "Triangles"}

\* C7: process_model_data changes no field of a geometry block other than
\* Vertices, Normals, Center and Triangles: the block has the same fields in
\* the same order and every other field ("UV Sets", unrecognized ones) has
\* the value it had.
C7_PositionFrame ==
  (Called /\ Last \in {"NIF", "NIF_X"}) =>
    \A i \in GeometryBlocks :
      /\ doc[i].v.t = "dict"
      /\ Len(After(i)) = Len(Before(i))
      /\ \A n \in 1..Len(Before(i)) :
           /\ After(i)[n].k = Before(i)[n].k
           /\ Before(i)[n].k \notin MirroredFields => After(i)[n].v = Before(i)[n].v

\* the vertices of a block that has "UV Sets" and an unrecognized field were
\* mirrored
C7_Witness ==
  /\ PositionMirrored
  /\ \E i \in GeometryBlocks :
       /\ Has(Before(i), "UV Sets") /\ Has(Before(i), "Flags")
       /\ Truthy(Get(Before(i), "UV Sets"))
       /\ doc[i].v.t = "dict"
       /\ VerticesMirrored(Before(i), After(i))

\* the Triangles field is a list of strings with an entry that does not
\* split into exactly 3 tokens
HasMalformedTriangle(d) ==
  /\ Has(d, "Triangles")
  /\ IsStringList(Get(d, "Triangles"))
  /\ \E j \in 1..Len(Get(d, "Triangles").l) : ~IsTriangle(Get(d, "Triangles").l[j])

\* a diagnostic of the call names the key
WarnedAbout(key) == \E n \in 1..Len(log) : log[n].key = key

\* C8: after process_model_data of _TES3_automirror_NIF_X.py, in every
\* geometry block whose Triangles list (string encoding) has an entry that
\* does not split into exactly 3 tokens, Triangles has its original value, a
\* warning names the block key, and Vertices, Normals and Center are mirrored.
C8_MalformedTriangleKept ==
  (Called /\ Last = "NIF_X") =>
    \A i \in GeometryBlocks :
      (CoordsTyped(Before(i)) /\ HasMalformedTriangle(Before(i)))
        => /\ doc[i].v.t = "dict"
           /\ Has(After(i), "Triangles")
           /\ Get(After(i), "Triangles") = Get(Before(i), "Triangles")
           /\ WarnedAbout(prev[i].k)
           /\ CoordsMirrored(Before(i), After(i))

\* a list with an element that is not a string, of a length that is not a
\* multiple of 3
IsBadFlat(v) ==
  /\ v.t = "list"
  /\ \E j \in 1..Len(v.l) : v.l[j].t # "str"
  /\ Len(v.l) % 3 # 0

Count(q, x) == Cardinality({j \in 1..Len(q) : q[j] = x})
\* the two sequences hold the same elements, each as often
SameBag(a, b) == Len(a) = Len(b) /\ \A j \in 1..Len(a) : Count(a, a[j]) = Count(b, a[j])

\* C10: after a position mirror has returned, in every geometry block the
\* Triangles list has as many entries as before, and the i-th triangle (the
\* i-th string, or the i-th group of 3 of a flat list) holds the same
\* multiset of index tokens as before.
C10_TrianglesOnlyPermuted ==
  PositionMirrored =>
    \A i \in GeometryBlocks :
      (Has(Before(i), "Triangles") /\ Get(Before(i), "Triangles").t = "list")
        => /\ doc[i].v.t = "dict"
           /\ Has(After(i), "Triangles")
           /\ LET p == Get(Before(i), "Triangles").l
                  r == Get(After(i), "Triangles")
              IN /\ r.t = "list"
                 /\ Len(r.l) = Len(p)
                 /\ IF IsStringList(Get(Before(i), "Triangles"))
                    THEN \A j \in 1..Len(p) :
                           r.l[j].t = "str" /\ SameBag(r.l[j].toks, p[j].toks)
                    ELSE IF Len(p) % 3 = 0
                    THEN \A g \in 0..((Len(p) \div 3) - 1) :
                           SameBag(SubSeq(r.l, 3 * g + 1, 3 * g + 3),
                                   SubSeq(p, 3 * g + 1, 3 * g + 3))
                    ELSE r.l = p

\* the list field f has as many entries in rd as in pd
SameLength(pd, rd, f) ==
  (Has(pd, f) /\ Get(pd, f).t = "list")
    => (Has(rd, f) /\ Get(rd, f).t = "list" /\ Len(Get(rd, f).l) = Len(Get(pd, f).l))

\* the first UV set, a list, has as many entries in rd as in pd
SameLengthFirstUVSet(pd, rd) ==
  (Has(pd, "UV Sets") /\ Get(pd, "UV Sets").t = "list" /\ Len(Get(pd, "UV Sets").l) > 0
     /\ Get(pd, "UV Sets").l[1].t = "list")
    => /\ Has(rd, "UV Sets") /\ Get(rd, "UV Sets").t = "list"
       /\ Len(Get(rd, "UV Sets").l) > 0
       /\ Get(rd, "UV Sets").l[1].t = "list"
       /\ Len(Get(rd, "UV Sets").l[1].l) = Len(Get(pd, "UV Sets").l[1].l)

\* a string of the list field f of pd that is not a well-formed n-tuple
\* stands unchanged at its place in rd
HasMalformedKept(pd, rd, f, n) ==
  /\ Has(pd, f) /\ IsStringList(Get(pd, f)) /\ Has(rd, f) /\ Get(rd, f).t = "list"
  /\ \E j \in 1..Len(Get(pd, f).l) :
       /\ ~WellFormed(Get(pd, f).l[j], n)
       /\ j <= Len(Get(rd, f).l)
       /\ Get(rd, f).l[j] = Get(pd, f).l[j]

\* C11: after a transform has returned, in every geometry block the lists
\* Vertices and Normals, and the first UV set, have as many entries as they
\* had before the call, whether or not some of the entries are malformed and
\* were returned unchanged.
C11_Cardinality ==
  (Called /\ exc = "none") =>
    \A i \in GeometryBlocks :
      /\ doc[i].v.t = "dict"
      /\ SameLength(Before(i), After(i), "Vertices")
      /\ SameLength(Before(i), After(i), "Normals")
      /\ SameLengthFirstUVSet(Before(i), After(i))

\* process_model_data (NIF_X) has mirrored one vertex of a list of two and
\* returned the other, malformed one unchanged
C11_Witness ==
  /\ Called /\ Last = "NIF_X" /\ exc = "none"
  /\ \E i \in GeometryBlocks :
       /\ doc[i].v.t = "dict"
       /\ HasMalformedKept(Before(i), After(i), "Vertices", 3)
       /\ Len(Get(Before(i), "Vertices").l) = 2
       /\ Len(Get(After(i), "Vertices").l) = 2
       /\ VerticesMirrored(Before(i), After(i))

\* C12: after a call of process_model_data or process_model_uv, the document
\* that was passed in holds what it held before the call: the transform has
\* built its result apart from its argument.
C12_ArgumentUnmodified == Called => argument = prev

\* the places of the document given to the call that hold, under a key with
\* the marker, a value that is not a mapping
NonMappingBlocks == {i \in 1..Len(prev) : Marked(prev[i].k) /\ prev[i].v.t # "dict"}

\* every well-formed pair of the first UV set of pd is mirrored in rd
FirstUVSetMirrored(pd, rd, mirror_type) ==
  /\ Has(rd, "UV Sets")
  /\ Get(rd, "UV Sets").t = "list"
  /\ Len(Get(rd, "UV Sets").l) > 0
  /\ Get(rd, "UV Sets").l[1].t = "list"
  /\ Len(Get(rd, "UV Sets").l[1].l) = Len(Get(pd, "UV Sets").l[1].l)
  /\ \A j \in 1..Len(Get(pd, "UV Sets").l[1].l) :
       WellFormed(Get(pd, "UV Sets").l[1].l[j], 2)
         => IsUVMirrorOf(Get(rd, "UV Sets").l[1].l[j], Get(pd, "UV Sets").l[1].l[j],
                         mirror_type)

\* the call has transformed the geometry block at place j: its coordinates
\* under a position mirror, its first UV set under a UV mirror
BlockTransformed(j) ==
  /\ doc[j].v.t = "dict"
  /\ (Last \in {"NIF", "NIF_X"} /\ CoordsTyped(Before(j))) => CoordsMirrored(Before(j), After(j))
  /\ (Last \in {"UVx", "UVy"} /\ HasFirstUVSet(Before(j)))
       => FirstUVSetMirrored(Before(j), After(j), MirrorTypeOf(Last))

\* C13: when the value under a key with the marker is not a mapping, the
\* call returns, that value is as it was, a diagnostic names the key, and
\* every geometry block of the document, before or after it in key order, is
\* transformed.
C13_NonMappingBlock ==
  Called =>
    \A i \in NonMappingBlocks :
      /\ exc = "none"
      /\ doc[i].v = prev[i].v
      /\ WarnedAbout(prev[i].k)
      /\ \A j \in GeometryBlocks : BlockTransformed(j)

\* the coordinate strings of block d that the call cannot mirror: strings of
\* Vertices, Normals or Center that are not 3 numbers under a position
\* mirror, strings of the first UV set that are not 2 numbers under a UV
\* mirror.  A place is <<field, index>>, index 0 for Center.
BadInList(d, f) ==
  IF Has(d, f) /\ IsStringList(Get(d, f))
  THEN {<<f, j>> : j \in {n \in 1..Len(Get(d, f).l) : ~WellFormed(Get(d, f).l[n], 3)}}
  ELSE {}

BadCenter(d) ==
  IF Has(d, "Center") /\ Get(d, "Center").t = "str" /\ ~WellFormed(Get(d, "Center"), 3)
  THEN {<<"Center", 0>>}
  ELSE {}

BadInFirstUVSet(d) ==
  IF HasFirstUVSet(d)
  THEN {<<"UV Sets", j>> : j \in {n \in 1..Len(Get(d, "UV Sets").l[1].l) :
                                    ~WellFormed(Get(d, "UV Sets").l[1].l[n], 2)}}
  ELSE {}

BadCoordinates(d) ==
  IF Last \in {"NIF", "NIF_X"}
  THEN BadInList(d, "Vertices") \cup BadInList(d, "Normals") \cup BadCenter(d)
  ELSE BadInFirstUVSet(d)

\* the value at a place of block d
At(d, pl) ==
  IF pl[1] = "Center" THEN Get(d, "Center")
  ELSE IF pl[1] = "UV Sets" THEN Get(d, "UV Sets").l[1].l[pl[2]]
  ELSE Get(d, pl[1]).l[pl[2]]

\* block rd has at place pl a value, reached the way it is reached in pd
HasPlace(rd, pl) ==
  IF pl[1] = "Center" THEN Has(rd, "Center")
  ELSE IF pl[1] = "UV Sets"
  THEN /\ Has(rd, "UV Sets") /\ Get(rd, "UV Sets").t = "list"
       /\ Len(Get(rd, "UV Sets").l) > 0 /\ Get(rd, "UV Sets").l[1].t = "list"
       /\ pl[2] <= Len(Get(rd, "UV Sets").l[1].l)
  ELSE Has(rd, pl[1]) /\ Get(rd, pl[1]).t = "list" /\ pl[2] <= Len(Get(rd, pl[1]).l)

\* a diagnostic of the call shows the string
WarnedAboutString(str) == \E n \in 1..Len(log) : log[n].arg = str

\* C14: when a coordinate string of a geometry block (coordinate fields of
\* the documented type) is not 3 numbers, or a string of the first UV set is
\* not 2 numbers, the call returns, that string stands unchanged at its
\* place, a diagnostic shows it, and every geometry block of the document is
\* transformed: the other coordinates of the list, the other coordinate
\* fields and the well-formed triangles of the block, and the other blocks.
C14_BadCoordinate ==
  Called =>
    \A i \in GeometryBlocks :
      (CoordsTyped(Before(i)) /\ BadCoordinates(Before(i)) # {})
        => /\ exc = "none"
           /\ doc[i].v.t = "dict"
           /\ \A pl \in BadCoordinates(Before(i)) :
                /\ HasPlace(After(i), pl)
                /\ At(After(i), pl) = At(Before(i), pl)
                /\ WarnedAboutString(At(Before(i), pl))
           /\ \A j \in GeometryBlocks : BlockTransformed(j)
           /\ (Last \in {"NIF", "NIF_X"} /\ TrianglesWellFormed(Before(i)))
                => TrianglesReversed(Before(i), After(i))

\* C15: every call of process_model_data or process_model_uv on a document
\* (a mapping at top level) returns: no shape of a block, of a field or of an
\* element makes the call raise.
C15_Totality == Called => exc = "none"

(***************************************************************************)
(* Vocabulary of the properties of a run of main(): attempts holds, in the *)
(* order of the calls, the file each call of process_single_file was given,*)
(* what the call returned and what the file held; written the paths the    *)
(* calls wrote; batchlog the lines logged since the start of the run.      *)
(***************************************************************************)
\* a line of the log of the run with one of the messages names the file
Logged(msgs, file) ==
  \E n \in 1..Len(batchlog) : batchlog[n].msg \in msgs /\ batchlog[n].key = file
\* the call for the file wrote the path
Wrote(file, path) ==
  \E n \in 1..Len(written) : written[n].from = file /\ written[n].path = path
WroteSomething(file) == \E n \in 1..Len(written) : written[n].from = file
\* the calls made so far took the listed files in the order of the list
InListOrder ==
  /\ Len(attempts) <= Len(files_to_process)
  /\ \A n \in 1..Len(attempts) : attempts[n].file = files_to_process[n]
\* the files for which process_single_file returned True
Succeeded == {n \in 1..Len(attempts) : attempts[n].ok}
FailLines == {n \in 1..Len(batchlog) : batchlog[n].msg = "[FAIL]"}

\* C16: when a listed file is not valid JSON, process_single_file returns
\* False for it, a line of the log reports the error and names the file, no
\* path is written for it, and the loop goes on: while the run lasts the
\* next file to take is the one after the last one taken, and when the run
\* has ended every listed file was taken.
C16_ParseErrorOneFile ==
  \A n \in 1..Len(attempts) :
    attempts[n].kind = "text"
      => /\ ~attempts[n].ok
         /\ Logged({"Error parsing JSON in", "Error processing"}, attempts[n].file)
         /\ ~WroteSomething(attempts[n].file)
         /\ InListOrder
         /\ phase = "loop" => pos = Len(attempts) + 1
         /\ phase = "done" => Len(attempts) = Len(files_to_process)

\* the first file of a run of NIF_X is not JSON; the file after it was taken
\* and its mirror written
C16_Witness ==
  /\ script = "NIF_X"
  /\ phase = "done"
  /\ Len(attempts) = 2
  /\ attempts[1].kind = "text"
  /\ attempts[2].ok
  /\ Wrote(attempts[2].file, output_filename(attempts[2].file))

\* C17: the loop of main takes every listed file once, in the order of the
\* list, whatever the calls for the files before returned; the count of
\* successes is the number of calls that returned True; the summary reports
\* that count, and it adds up with the [FAIL] lines to the number of listed
\* files.
C17_BatchIsolation ==
  /\ InListOrder
  /\ success_count = Cardinality(Succeeded)
  /\ phase = "loop" => pos = Len(attempts) + 1
  /\ (phase = "done" /\ files_to_process # <<>>) =>
       /\ Len(attempts) = Len(files_to_process)
       /\ \E n \in 1..Len(batchlog) :
            /\ batchlog[n].msg = "Processing complete"
            /\ batchlog[n].arg = JInt(Cardinality(Succeeded))
       /\ Cardinality(Succeeded) + Cardinality(FailLines) = Len(files_to_process)

\* a run has ended whose first file failed in the transform and whose second
\* file succeeded
C17_Witness ==
  /\ phase = "done"
  /\ Len(files_to_process) = 2
  /\ attempts[1].kind = "json" /\ ~attempts[1].ok /\ ~WroteSomething(attempts[1].file)
  /\ attempts[2].ok
  /\ success_count = 1
  /\ Cardinality(FailLines) = 1

\* the first UV set of the block is there and is not a list
FirstUVSetNotAList(d) ==
  /\ Has(d, "UV Sets")
  /\ Get(d, "UV Sets").t = "list"
  /\ Len(Get(d, "UV Sets").l) > 0
  /\ Get(d, "UV Sets").l[1].t # "list"
  /\ Truthy(Get(d, "UV Sets").l[1])

\* the value at place i of the document given to the call has a shape for
\* which the call leaves it, one of its fields or one of the elements of a
\* field untransformed, or drops an element
SkippedForShape(i) ==
  /\ Marked(prev[i].k)
  /\ \/ prev[i].v.t # "dict"
     \/ /\ prev[i].v.t = "dict"
        /\ \/ BadCoordinates(Before(i)) # {}
           \/ Last = "NIF_X" /\ HasMalformedTriangle(Before(i))
           \/ Last = "NIF_X" /\ Has(Before(i), "Triangles")
                /\ IsBadFlat(Get(Before(i), "Triangles"))
           \/ Last \in {"UVx", "UVy"} /\ FirstUVSetNotAList(Before(i))

\* C18: whenever process_model_data (NIF_X) or process_model_uv is given a
\* document with a geometry value it skips for its shape (a value that is
\* not a mapping, a bad coordinate string, a malformed triangle entry, an
\* unsupported triangle list, a first UV set that is not a list), the call
\* emits at least one diagnostic.
C18_NoSilentSkip ==
  (Called /\ Last \in {"NIF_X", "UVx", "UVy"}) =>
    \A i \in 1..Len(prev) : SkippedForShape(i) => log # <<>>

\* the strings r and p hold the same numbers: as many tokens, every number
\* of p a number of the same value in r (0.0 and -0.0 are equal), every
\* other token as it is
SameNumbers(r, p) ==
  IF p.t # "str" THEN r = p
  ELSE /\ r.t = "str"
       /\ Len(r.toks) = Len(p.toks)
       /\ \A j \in 1..Len(p.toks) :
            IF p.toks[j].num THEN r.toks[j].num /\ r.toks[j].k = p.toks[j].k
            ELSE r.toks[j] = p.toks[j]

SameNumbersList(r, p) ==
  IF p.t # "list" THEN r = p
  ELSE /\ r.t = "list"
       /\ Len(r.l) = Len(p.l)
       /\ \A j \in 1..Len(p.l) : SameNumbers(r.l[j], p.l[j])

\* two position mirrors were applied one after the other, and both returned
MirroredTwice ==
  /\ Len(calls) = 2
  /\ calls[1] \in {"NIF", "NIF_X"} /\ calls[2] \in {"NIF", "NIF_X"}
  /\ exc = "none"
\* the geometry blocks of the document the first call was given
SourceBlocks == {i \in 1..Len(source) : Marked(source[i].k) /\ source[i].v.t = "dict"}

\* C19: after process_model_data was applied to a document and then to the
\* result, in every geometry block Vertices, Normals and Center hold the
\* numbers they held in the document at the start: the lists have their
\* lengths and every coordinate its value.
C19_MirrorInvolution ==
  MirroredTwice =>
    \A i \in SourceBlocks :
      /\ doc[i].v.t = "dict"
      /\ \A f \in {"Vertices", "Normals"} :
           Has(source[i].v.d, f)
             => Has(doc[i].v.d, f)
                /\ SameNumbersList(Get(doc[i].v.d, f), Get(source[i].v.d, f))
      /\ Has(source[i].v.d, "Center")
           => Has(doc[i].v.d, "Center")
              /\ SameNumbers(Get(doc[i].v.d, "Center"), Get(source[i].v.d, "Center"))

\* "1.0 2.0 3.0" became "-1.0 2.0 3.0" and then "1.0 2.0 3.0" again, in
\* Vertices, Normals and Center; next to it "0 1 2" has become "0.0 1.0 2.0"
C19_Witness ==
  /\ MirroredTwice
  /\ \E i \in SourceBlocks :
       /\ CoordsTyped(source[i].v.d)
       /\ Has(source[i].v.d, "Vertices") /\ Has(source[i].v.d, "Normals")
       /\ Has(source[i].v.d, "Center")
       /\ Get(source[i].v.d, "Vertices") = JList(<<S_xyz, S_012>>)
       /\ Get(source[i].v.d, "Center") = S_xyz
       /\ Get(prev[i].v.d, "Vertices").l[1] = Join(<<Canon(-4), Canon(8), Canon(12)>>)
       /\ Get(doc[i].v.d, "Vertices").l[1] = S_xyz
       /\ Get(doc[i].v.d, "Vertices").l[2] # S_012
       /\ Get(source[i].v.d, "Normals").l[1] = S_xyz
       /\ Get(prev[i].v.d, "Normals").l[1] # S_xyz
       /\ Get(doc[i].v.d, "Normals").l[1] = S_xyz
       /\ Get(prev[i].v.d, "Center") # S_xyz
       /\ Get(doc[i].v.d, "Center") = S_xyz

\* one entry of Triangles holds what another held: a string has the same
\* tokens in the same order (the blanks between them are not compared), any
\* other value is the same value
SameEntries(r, p) ==
  IF p.t # "str" THEN r = p
  ELSE r.t = "str" /\ r.toks = p.toks

SameTriangles(r, p) ==
  IF p.t # "list" THEN r = p
  ELSE /\ r.t = "list"
       /\ Len(r.l) = Len(p.l)
       /\ \A j \in 1..Len(p.l) : SameEntries(r.l[j], p.l[j])

\* C20: after process_model_data was applied to a document and then to the
\* result, in every geometry block Triangles is the field of the document at
\* the start: as many entries, in the same order, each with the same indices
\* in the same order.
C20_WindingInvolution ==
  MirroredTwice =>
    \A i \in SourceBlocks :
      Has(source[i].v.d, "Triangles")
        => /\ doc[i].v.t = "dict"
           /\ Has(doc[i].v.d, "Triangles")
           /\ SameTriangles(Get(doc[i].v.d, "Triangles"), Get(source[i].v.d, "Triangles"))

\* the first UV set of a block that has one
FirstUVSet(d) == Get(d, "UV Sets").l[1]
Max(a, b) == IF a < b THEN b ELSE a
\* the float a is the float b but for the rounding of 1.0 - b: they differ by
\* at most half the distance between the floats at the larger of b and 1 - b
WithinTolerance(a, b) == 2 * Abs(a - b) <= Ulp(Max(Abs(b), Abs(One - b)))

\* process_model_uv was applied with mirror type a and then, to the result,
\* with mirror type b
UVMirroredTwice(a, b) == calls = <<"UV" \o a, "UV" \o b>>

\* the first UV set of every geometry block of the document at the start
\* has, after the two calls, its length, and each of its well-formed pairs
\* is a well-formed pair again
PairsKept ==
  \A i \in SourceBlocks :
    HasFirstUVSet(source[i].v.d)
      => /\ doc[i].v.t = "dict"
         /\ HasFirstUVSet(doc[i].v.d)
         /\ Len(FirstUVSet(doc[i].v.d).l) = Len(FirstUVSet(source[i].v.d).l)
         /\ \A j \in 1..Len(FirstUVSet(source[i].v.d).l) :
              WellFormed(FirstUVSet(source[i].v.d).l[j], 2)
                => WellFormed(FirstUVSet(doc[i].v.d).l[j], 2)

\* the well-formed pairs of the first UV sets at the start, each with the
\* pair that is at its place now
WellFormedPairsThenNow ==
  {<<FirstUVSet(source[i].v.d).l[j].toks, FirstUVSet(doc[i].v.d).l[j].toks>> :
     <<i, j>> \in {ij \in SourceBlocks \X (1..MaxList + 1) :
                    /\ HasFirstUVSet(source[ij[1]].v.d)
                    /\ ij[2] <= Len(FirstUVSet(source[ij[1]].v.d).l)
                    /\ WellFormed(FirstUVSet(source[ij[1]].v.d).l[ij[2]], 2)}}

\* 'x' then 'y' leaves the document that 'y' then 'x' leaves
UVMirrorsCommute ==
  /\ UVMirroredTwice("x", "y")
       => doc = process_model_uv(process_model_uv(source, "y").doc, "x").doc
  /\ UVMirroredTwice("y", "x")
       => doc = process_model_uv(process_model_uv(source, "x").doc, "y").doc

BaseOf(name) == SubSeq(name, 1, Len(name) - 1)
\* B with the piece put in before its i-th piece, nothing else changed
InsertBefore(B, i, piece) == SubSeq(B, 1, i - 1) \o <<piece>> \o SubSeq(B, i, Len(B))
\* the output names of the input B + ".nif.json": of the NIF scripts, and of
\* the UVW script for the suffix "a" or "b"
MirrorNameOf(name) == BaseOf(name) \o <<mirror_suffix, extension>>
UVNamesOf(name, suffix) ==
  IF ~Contains(BaseOf(name), mirror_suffix) THEN {BaseOf(name) \o <<suffix, extension>>}
  ELSE {InsertBefore(BaseOf(name), i, suffix) \o <<extension>> :
          i \in {j \in 1..Len(BaseOf(name)) : BaseOf(name)[j] = mirror_suffix}}
\* the paths written for the file in this run
PathsFrom(file) == {written[n].path : n \in {m \in 1..Len(written) : written[m].from = file}}

\* C22: in a run, every file that was processed with success has been
\* written to its output names and to nothing else: B + "_m" + ".nif.json" by
\* the NIF scripts; by the UVW script B + "a" + ".nif.json" and
\* B + "b" + ".nif.json", or, when B contains the mirror suffix, B with "a" and
\* B with "b" put in immediately before the mirror suffix.
C22_OutputNaming ==
  \A n \in 1..Len(attempts) :
    attempts[n].ok
      => IF script = "UVW"
         THEN \E px \in UVNamesOf(attempts[n].file, x_suffix) :
                \E py \in UVNamesOf(attempts[n].file, y_suffix) :
                  PathsFrom(attempts[n].file) = {px, py}
         ELSE PathsFrom(attempts[n].file) = {MirrorNameOf(attempts[n].file)}

\* the suffixes by which a script tells its output files
OutputSuffixes == IF script = "UVW" THEN {x_suffix, y_suffix} ELSE {mirror_suffix}
\* the names the run has listed, the paths it has written
Listed == {files_to_process[n] : n \in 1..Len(files_to_process)}
PathsOf(wr) == {wr[n].path : n \in 1..Len(wr)}
\* the paths written by the runs before this one
WrittenEarlier == UNION {PathsOf(earlier[r].written) : r \in 1..Len(earlier)}

\* C23: the names a run lists end with ".nif.json", do not start with
\* "mirrored_" and do not contain an output suffix of the script; no file
\* written by a run before is among them; and a run that has ended has
\* written to the paths the run before it wrote to.
C23_DiscoveryAcrossRuns ==
  /\ \A f \in Listed :
       /\ endswith(f, extension)
       /\ ~startswith(f, "mirrored_")
       /\ \A sfx \in OutputSuffixes : ~Contains(f, sfx)
  /\ Listed \cap WrittenEarlier = {}
  /\ (phase = "done" /\ earlier # <<>>)
       => PathsOf(written) = PathsOf(earlier[Len(earlier)].written)

\* a second run has ended: the run before it wrote files, they are in the
\* directory, and this run listed files, leaving some ".nif.json" names out,
\* and wrote to the same paths
C23_Witness ==
  /\ phase = "done"
  /\ Len(earlier) = 1
  /\ PathsOf(earlier[1].written) # {}
  /\ PathsOf(earlier[1].written) \subseteq DOMAIN fs
  /\ Listed # {}
  /\ Listed # {f \in DOMAIN fs : endswith(f, extension)}
  /\ PathsOf(written) = PathsOf(earlier[1].written)

\* C25: in a run, no listed file is written to: every path the run has
\* written, and every output name it has reported, differs from every name
\* that find_json_files returned.
C25_InputsNotWritten ==
  /\ PathsOf(written) \cap Listed = {}
  /\ \A n \in 1..Len(batchlog) :
       batchlog[n].msg = "->" => batchlog[n].arg.name \notin Listed

\* a run of the UVW script has ended that listed two files, one of them an
\* output of a NIF script, and wrote the two outputs of each
C25_Witness ==
  /\ phase = "done"
  /\ script = "UVW"
  /\ Listed = {N_rock, N_rock_m}
  /\ Cardinality(PathsOf(written)) = 4

\* the document rdoc is the document pdoc with the first UV set of every
\* geometry block mirrored on the axis and nothing else changed
IsUVMirrorOfDocument(rdoc, pdoc, mirror_type) ==
  /\ Len(rdoc) = Len(pdoc)
  /\ \A i \in 1..Len(pdoc) :
       /\ rdoc[i].k = pdoc[i].k
       /\ IF Marked(pdoc[i].k) /\ pdoc[i].v.t = "dict" /\ HasFirstUVSet(pdoc[i].v.d)
          THEN /\ rdoc[i].v.t = "dict"
               /\ FirstUVSetMirrored(pdoc[i].v.d, rdoc[i].v.d, mirror_type)
               /\ Len(rdoc[i].v.d) = Len(pdoc[i].v.d)
               /\ \A n \in 1..Len(pdoc[i].v.d) :
                    /\ rdoc[i].v.d[n].k = pdoc[i].v.d[n].k
                    /\ pdoc[i].v.d[n].k # "UV Sets" => rdoc[i].v.d[n].v = pdoc[i].v.d[n].v
                    /\ pdoc[i].v.d[n].k = "UV Sets"
                         => /\ Len(rdoc[i].v.d[n].v.l) = Len(pdoc[i].v.d[n].v.l)
                            /\ \A j \in 2..Len(pdoc[i].v.d[n].v.l) :
                                 rdoc[i].v.d[n].v.l[j] = pdoc[i].v.d[n].v.l[j]
          ELSE rdoc[i] = pdoc[i]

\* the file the loop of main took last
LastAttempt == attempts[Len(attempts)]

\* C26: when the UVW script has processed a file with success, the file at
\* its "a" output name holds the document of the input file mirrored on U
\* and the file at its "b" output name holds the document of the input file
\* mirrored on V: in the "b" output every u is the u of the input.
C26_IndependentSiblings ==
  (script = "UVW" /\ attempts # <<>> /\ LastAttempt.ok)
    => \E px, py \in PathsFrom(LastAttempt.file) :
         /\ Contains(px, x_suffix) /\ Contains(py, y_suffix)
         /\ PathsFrom(LastAttempt.file) = {px, py}
         /\ fs[px].kind = "json" /\ fs[py].kind = "json"
         /\ IsUVMirrorOfDocument(fs[px].doc, fs[LastAttempt.file].doc, "x")
         /\ IsUVMirrorOfDocument(fs[py].doc, fs[LastAttempt.file].doc, "y")

\* "rock.nif.json" with the pairs "0.25 0.75" and "1 0.5" was processed:
\* "rocka.nif.json" holds "0.75 0.75" and "0.0 0.5", "rockb.nif.json" holds
\* "0.25 0.25" and "1.0 0.5"
C26_Witness ==
  /\ script = "UVW" /\ attempts # <<>>
  /\ LastAttempt.ok /\ LastAttempt.file = N_rock
  /\ fs[N_rock] = JsonFile(D_good)
  /\ FirstUVSet(fs[<<"rock", x_suffix, extension>>].doc[1].v.d)
       = JList(<<Join(<<Canon(3), Canon(3)>>), Join(<<Canon(0), Canon(2)>>)>>)
  /\ FirstUVSet(fs[<<"rock", y_suffix, extension>>].doc[1].v.d)
       = JList(<<Join(<<Canon(1), Canon(1)>>), Join(<<Canon(4), Canon(2)>>)>>)

\* C27: in a run, no path is written for two listed files, and the UVW
\* script writes the two outputs of a file to two paths: no file written in
\* the run is overwritten in the run.
C27_NoOutputCollision ==
  /\ \A m, n \in 1..Len(written) :
       written[m].path = written[n].path => m = n
  /\ \A n \in 1..Len(attempts) :
       (script = "UVW" /\ attempts[n].ok) => Cardinality(PathsFrom(attempts[n].file)) = 2

(***************************************************************************)
(* The retexturing scripts                                                 *)
(***************************************************************************)
RetexScripts == {"grass", "rocks", "snow", "ice"}

\* the list of textures of the script is as long as its list of new affixes
TablesMatch(scr) == Len(generate_textures(scr)) = Len(new_M1_affixes(scr))

\* C24: in each of the four retexturing scripts generate_textures() has as many
\* entries as new_M1_affixes, so the lookup at i % len is entry i for every
\* index i of an affix, and every file a run creates for the i-th new affix is
\* given the i-th texture
C24_TextureTable ==
  /\ \A scr \in RetexScripts :
       /\ TablesMatch(scr)
       /\ \A i \in 1..Len(new_M1_affixes(scr)) :
            new_texture_at(generate_textures(scr), i) = generate_textures(scr)[i]
  /\ script \in RetexScripts =>
       \A n \in 1..Len(written) :
         /\ written[n].path[2] = new_M1_affixes(script)[written[n].i]
         /\ written[n].texture = generate_textures(script)[written[n].i]

\* a run has created the file of the last new affix, the one whose index a
\* shorter list of textures would wrap
C24_Witness ==
  /\ script \in RetexScripts
  /\ phase = "done"
  /\ \E n \in 1..Len(written) : written[n].i = Len(new_M1_affixes(script))

\* the files from which a run made variants
Processed(wr) == {wr[n].from : n \in 1..Len(wr)}

\* no file created in the run lies at the path of a file the run took as input
SourcePathsKept ==
  \A n \in 1..Len(written), m \in 1..Len(attempts) : written[n].path # attempts[m].file
\* when the run has ended, each file it took as input holds what it held when
\* it was taken
SourceContentsKept ==
  phase = "done" => \A m \in 1..Len(attempts) : fs[attempts[m].file] = attempts[m].content
\* a run after another makes variants from the files the run before made them
\* from
SameSourcesAgain ==
  (phase = "done" /\ earlier # <<>>) =>
    Processed(written) = Processed(earlier[Len(earlier)].written)

\* C29: in a run of a retexturing script no generated variant is written to the
\* path of a file the run reads as a valid input, so each source file has the
\* same content after the run as before, and a second run over the directory
\* processes the same source files as the first
C29_SourcesIntact ==
  script \in RetexScripts => SourcePathsKept /\ SourceContentsKept /\ SameSourcesAgain

\* the file taken cannot be opened, or holds a text that is not JSON
Unusable(a) == a.kind \in {"locked", "text"}
LoggedFor(msg, filename) ==
  \E n \in 1..Len(batchlog) : batchlog[n].msg = msg /\ batchlog[n].key = filename
\* the valid files of every base name of the listing
AllValidFiles ==
  {f \in {files_to_process[n] : n \in 1..Len(files_to_process)} :
     \E b \in 1..Len(base_names_of(script, files_to_process)) :
       \E n \in 1..Len(valid_files_of(script, files_to_process,
                                      base_names_of(script, files_to_process)[b])) :
         valid_files_of(script, files_to_process,
                        base_names_of(script, files_to_process)[b])[n] = f}

\* C30: in the snow and ice scripts a validly named file that cannot be read or
\* cannot be parsed as JSON is skipped with "ERROR - Can't read", and every
\* other valid file is still taken; the ice script counts the file in
\* files_skipped and process_files returns its counters to main
C30_PerFileSkip ==
  (/\ script \in {"snow", "ice"}
   /\ phase = "done"
   /\ \E m \in 1..Len(attempts) : Unusable(attempts[m]))
  => /\ \A m \in 1..Len(attempts) :
          Unusable(attempts[m]) => LoggedFor("ERROR - Can't read", attempts[m].file)
     /\ \A f \in AllValidFiles : \E m \in 1..Len(attempts) : attempts[m].file = f
     /\ script = "ice" =>
          /\ counters.files_skipped
               >= Cardinality({m \in 1..Len(attempts) : Unusable(attempts[m])})
          /\ \A n \in 1..Len(batchlog) : batchlog[n].msg # "ERROR - Unexpected error"

(***************************************************************************)
(* The convert scripts                                                     *)
(***************************************************************************)
ConvertScripts == {"ingredient", "miscitem", "static"}

\* the name of the file without its extension, and the number of its characters
NifName(f) == IF Len(f) = 1 THEN f ELSE SubSeq(f, 1, Len(f) - 1)
Chars(f) == len(NifName(f))
\* the id is "_RR_" and the name, the mesh path "rr\f\", the name and ".nif"
FitsId(f) == Len("_RR_") + Chars(f) <= max_length_id
FitsMesh(f) == Len("rr\\f\\") + Chars(f) + Len(".nif") <= max_length_mesh

Listing == {files_to_process[n] : n \in 1..Len(files_to_process)}
EntryFor(f) == \E n \in 1..Len(entries) : entries[n].id = <<"_RR_">> \o NifName(f)
ErrorFor(list, f) == \E n \in 1..Len(list) : list[n].name = NifName(f)
WriteOf(path) == \E n \in 1..Len(written) : written[n].path = path
Written(path) == \E n \in 1..Len(written) : written[n].path = path /\ written[n].ok

\* C28: when process_files of a convert script has ended, every listed .nif
\* file has a record entry iff its id and its mesh path are both within the
\* limits, and else its name is in each error list whose limit it exceeds;
\* there are as many entries as files within the limits; the output file is
\* written iff there is an entry and then holds the entries, the error log is
\* written iff there is an error and then holds the errors
C28_OneOutcomePerFile ==
  (script \in ConvertScripts /\ phase = "done") =>
    /\ \A f \in Listing :
         /\ EntryFor(f) <=> (FitsId(f) /\ FitsMesh(f))
         /\ ErrorFor(errors.id, f) <=> ~FitsId(f)
         /\ ErrorFor(errors.mesh, f) <=> ~FitsMesh(f)
    /\ Len(entries) = Cardinality({f \in Listing : FitsId(f) /\ FitsMesh(f)})
    /\ Len(errors.id) = Cardinality({f \in Listing : ~FitsId(f)})
    /\ Len(errors.mesh) = Cardinality({f \in Listing : ~FitsMesh(f)})
    /\ WriteOf(output_file(script)) <=> entries # <<>>
    /\ WriteOf(log_file(script)) <=> (errors.id # <<>> \/ errors.mesh # <<>>)
    /\ Written(output_file(script)) => fs[output_file(script)].content = entries
    /\ Written(log_file(script)) => fs[log_file(script)].content = errors

\* a run has ended that listed a file whose mesh path is of exactly the
\* greatest length and a file whose mesh path is too long, and wrote both the
\* output file and the error log
C28_Witness ==
  /\ script \in ConvertScripts
  /\ phase = "done"
  /\ \E f \in Listing : Chars(f) = 22 /\ EntryFor(f)
  /\ \E f \in Listing : ~FitsMesh(f) /\ ErrorFor(errors.mesh, f) /\ ~EntryFor(f)
  /\ Written(output_file(script))
  /\ Written(log_file(script))

====
